---- MODULE Spec2Model ----
(***************************************************************************)
(* Random-number stream infrastructure of stisim (src/stisim/streams.py): *)
(* the Streams registry, the slot-indexed MultiStream, the                 *)
(* CentralizedStream and the _pre_draw / _pre_draw_centralized gates.      *)
(*                                                                         *)
(* The bit generator (numpy's PCG64) is modelled as a position in the      *)
(* output sequence selected by the seed: a state is [seed, pos]; drawing n *)
(* values reads the outputs at pos .. pos+n-1 and moves pos by n; jumped(j)*)
(* moves pos by j * Jump; everything is modulo Period.  Output values are  *)
(* integers 0 .. ValRange-1 standing for the floats of [0, 1).             *)
(***************************************************************************)
EXTENDS Integers, Sequences, FiniteSets, TLC

VARIABLES
    reg,        \* Streams objects: [initialized, base_seed, streams, used_seed_offsets]
    st,         \* stream objects (MultiStream / CentralizedStream)
    np_random,  \* the process-wide numpy.random generator used by CentralizedStream
    ret,        \* the last call: operation, arguments, outcome, returned value
    options,    \* ss.options: the process-wide settings
    people      \* the BasePeople object: [_uid_map, uid, nstates, state_len]

vars == <<reg, st, np_random, ret, options, people>>

----------------------------------------------------------------------------
(* Bounds of the model *)

MaxTi == 1          \* largest timestep index passed to step
MaxCount == 2       \* largest integer size passed to a sampling call
MaxLen == 2         \* longest identifier array passed to a sampling call
MaxPop == 3         \* population: longest mask, length of arange slots
MaxGlobalPos == 3   \* cap on the values drawn from numpy.random in one run

----------------------------------------------------------------------------
(* Program constants *)

SIZE == 0
UIDS == 1
BOOLS == 2

\* int(sha256(name)) % 10**8 for the names used here (MultiStream.__init__)
NameHash(name) ==
    CASE name = "infect" -> 17176962
      [] name = "death"  -> 22070925
      [] OTHER           -> 94128165

None == -1          \* Python's None for integer-valued attributes

\* PCG64: size of the state space and distance of one jump, scaled down
\* (numpy: 2^128 and floor(2^128 / golden ratio)).
Period == 64
Jump == 39
ValRange == 8

Regs == {1, 2}
StreamIds == {1, 2, 3}
Dists == {"random", "bernoulli"}
Probs == {ValRange \div 2}

\* Slot tables handed to initialize(): an integer n stands for np.arange(n);
\* the arrays give uid -> slot (uid u at index u+1).
Arange(n) == [i \in 1..n |-> i - 1]
IntSlots(n) == [isint |-> TRUE, n |-> n, a |-> <<>>]
ArraySlots(a) == [isint |-> FALSE, n |-> 0, a |-> a]
SlotArrays == {<<3, 1>>}
SlotInputs == {IntSlots(MaxPop)} \cup {ArraySlots(a) : a \in SlotArrays}

----------------------------------------------------------------------------
(* Bit generator *)

\* The value the generator seeded with `seed` outputs at position pos.
Output(seed, pos) == ((seed % 5) * 3 + pos * pos + 3 * pos + (pos \div 3)) % ValRange

PCG64(seed) == [seed |-> seed, pos |-> 0]

NoState == [seed |-> None, pos |-> 0]

\* Mutant of jumped: one jump moves the generator by one value
jumped_ByOne(state, jumps) == [state EXCEPT !.pos = (state.pos + jumps) % Period]

\* bit_generator.jumped(jumps)
jumped(state, jumps) == [state EXCEPT !.pos = (state.pos + jumps * Jump) % Period]

\* Generator.random(size=n): the n values drawn, and the state afterwards
DrawVals(state, n) == [i \in 1..n |-> Output(state.seed, (state.pos + i - 1) % Period)]
DrawState(state, n) == [state EXCEPT !.pos = (state.pos + n) % Period]

----------------------------------------------------------------------------
(* Arguments of a sampling call *)

IntArg(n)   == [kind |-> "int",  n |-> n, a |-> <<>>, extra |-> 0]
UidArg(a)   == [kind |-> "uids", n |-> 0, a |-> a, extra |-> 0]
MaskArg(a)  == [kind |-> "mask", n |-> 0, a |-> a, extra |-> 0]
NoArg       == [kind |-> "none", n |-> 0, a |-> <<>>, extra |-> 0]

SeqsUpTo(S, n) == UNION {[1..k -> S] : k \in 0..n}

\* Identifier arrays: up to MaxLen distinct uids of 0 .. MaxPop-1, in any order
Distinct(a) == \A i, j \in 1..Len(a) : i # j => a[i] # a[j]
UidArrays == {a \in SeqsUpTo(0..(MaxPop - 1), MaxLen) : Distinct(a)}
MaskArrays == SeqsUpTo(BOOLEAN, MaxPop)
\* Calls that give no size, or more than one positional argument
NoSizeArg   == [kind |-> "missing", n |-> 0, a |-> <<>>, extra |-> 0]
ManyArgs    == [kind |-> "many", n |-> 0, a |-> <<>>, extra |-> 0]
\* A request whose size is given by name (size=...) beside k positional
\* arguments: check_ready takes kwargs['size'] and never looks at args
WithPositional(arg, k) == [arg EXCEPT !.extra = k]
SizeArgs == {IntArg(n) : n \in (-1)..MaxCount}
    \cup {UidArg(a) : a \in UidArrays}
    \cup {NoSizeArg, ManyArgs}
MaskArgs == {MaskArg(a) : a \in MaskArrays}

----------------------------------------------------------------------------
(* Objects *)

NoReg == 0          \* streams=None in initialize()
NoSlots == <<-1>>   \* the attribute `slots` does not exist yet

\* Streams.__init__.  streams is _streams, in insertion order.  checked is
\* history, not an attribute: the streams that registered with the repeat
\* check on.
Streams__init__ ==
    [initialized |-> FALSE, base_seed |-> None, streams |-> <<>>,
     used_seed_offsets |-> {}, checked |-> {}]

\* Mutant of MultiStream__init__: the offset is always the hash of the name
MultiStream__init___HashOnly(name, seed_offset) ==
    [kind |-> "multi", name |-> name,
     seed_offset |-> NameHash(name),
     seed |-> None, initialized |-> FALSE, ready |-> TRUE,
     slots |-> NoSlots, state |-> NoState, init_state |-> NoState,
     at |-> None, sampled |-> FALSE, base |-> None]

\* MultiStream.__init__(name, seed_offset).  Three fields are history, not
\* attributes: at is the ti of the last step() with no reset() or
\* initialize() since (None if there is none); sampled says that a non-empty
\* sampling call has succeeded since the last initialize(), reset() or step();
\* base is the base seed the registry had when the stream registered.
MultiStream__init__(name, seed_offset) ==
    [kind |-> "multi", name |-> name,
     seed_offset |-> IF seed_offset = None THEN NameHash(name) ELSE seed_offset,
     seed |-> None, initialized |-> FALSE, ready |-> TRUE,
     slots |-> NoSlots, state |-> NoState, init_state |-> NoState,
     at |-> None, sampled |-> FALSE, base |-> None]

\* CentralizedStream.__init__(name, seed_offset): the offset argument is ignored
CentralizedStream__init__(name, seed_offset) ==
    [kind |-> "central", name |-> name, seed_offset |-> 0,
     seed |-> None, initialized |-> FALSE, ready |-> TRUE,
     slots |-> NoSlots, state |-> NoState, init_state |-> NoState,
     at |-> None, sampled |-> FALSE, base |-> None]

\* The record of the last call.  pre and np0 are the called stream and the
\* numpy.random state as they were when the call was made.  r,
\* check_repeats and value are those of a call of Streams.add: the
\* registry, the flag, and the seed returned.
Ret(op, s, outcome) ==
    [op |-> op, s |-> s, outcome |-> outcome, arg |-> NoArg, dist |-> "none",
     prob |-> 0, basis |-> None, size |-> 0, vals |-> <<>>,
     pre |-> MultiStream__init__("", 0), np0 |-> 0, ti |-> None,
     r |-> NoReg, check_repeats |-> FALSE, value |-> None,
     multirng |-> TRUE, par |-> None, used |-> <<>>]

\* The record of a call that registers stream s, as it is (S), in registry
\* r: Streams.add(stream, check_repeats), called directly (op "add") or by
\* the stream's initialize(streams, ...)
AddRet(op, s, outcome, S, r, check_repeats, value) ==
    [Ret(op, s, outcome) EXCEPT !.pre = S, !.r = r,
                                !.check_repeats = check_repeats,
                                !.value = IF outcome = "ok" THEN value ELSE None]

\* The record of a reset() (ti = None) or step(ti) call
MoveRet(op, s, outcome, ti, pre) ==
    [Ret(op, s, outcome) EXCEPT !.ti = ti, !.pre = pre]

SampleRet(s, outcome, arg, dist, prob, basis, size, vals, pre) ==
    [op |-> "sample", s |-> s, outcome |-> outcome, arg |-> arg, dist |-> dist,
     prob |-> prob, basis |-> basis, size |-> size, vals |-> vals,
     pre |-> pre, np0 |-> np_random.pos, ti |-> None,
     r |-> NoReg, check_repeats |-> FALSE, value |-> None,
     multirng |-> TRUE, par |-> None, used |-> <<>>]

----------------------------------------------------------------------------
(* Streams: the registry *)

\* Streams.initialize(base_seed)
StreamsInitialize(r, base_seed) ==
    /\ reg' = [reg EXCEPT ![r].base_seed = base_seed, ![r].initialized = TRUE]
    /\ ret' = Ret("streams_initialize", r, "ok")
    /\ UNCHANGED <<st, np_random, options, people>>

RegisteredNames(R) == {st[R.streams[i]].name : i \in 1..Len(R.streams)}

\* Mutant of AddOutcome: the registry is not checked to be initialized
AddOutcome_NoInitCheck(R, S, check_repeats) ==
    IF S.name \in RegisteredNames(R) THEN "RepeatNameException"
    ELSE IF check_repeats /\ S.seed_offset \in R.used_seed_offsets
        THEN "SeedRepeatException"
    ELSE "ok"

\* Mutant of AddOutcome: a name is a repeat only if the offset is one too
AddOutcome_NameWithOffset(R, S, check_repeats) ==
    IF ~R.initialized THEN "NotInitializedException"
    ELSE IF S.name \in RegisteredNames(R) /\ S.seed_offset \in R.used_seed_offsets
        THEN "RepeatNameException"
    ELSE IF check_repeats /\ S.seed_offset \in R.used_seed_offsets
        THEN "SeedRepeatException"
    ELSE "ok"

\* Mutant of AddOutcome: the offsets are compared only under a repeated name
AddOutcome_NoSeedCheck(R, S, check_repeats) ==
    IF ~R.initialized THEN "NotInitializedException"
    ELSE IF S.name \in RegisteredNames(R) THEN "RepeatNameException"
    ELSE "ok"

\* Streams.add(stream, check_repeats): the exception raised, or "ok"
AddOutcome(R, S, check_repeats) ==
    IF ~R.initialized THEN "NotInitializedException"
    ELSE IF S.name \in RegisteredNames(R) THEN "RepeatNameException"
    ELSE IF check_repeats /\ S.seed_offset \in R.used_seed_offsets
        THEN "SeedRepeatException"
    ELSE "ok"

\* Mutant of ResolvedSeed: the base seed is left out
ResolvedSeed_OffsetOnly(R, S) == S.seed_offset

\* Mutant of ResolvedSeed: offsets are handed out in first-come order
ResolvedSeed_FirstCome(R, S) == R.base_seed + S.seed_offset + Len(R.streams)

\* Streams.add(stream, check_repeats): the value returned
ResolvedSeed(R, S) == R.base_seed + S.seed_offset

\* Mutant of AddResult: the offset is not recorded as used
AddResult_NoClaim(R, s, S, check_repeats) ==
    [R EXCEPT !.streams = Append(@, s),
              !.checked = IF check_repeats THEN @ \cup {s} ELSE @]

\* Mutant of AddResult: the offset is claimed whatever check_repeats is
AddResult_AlwaysClaims(R, s, S, check_repeats) ==
    [R EXCEPT !.streams = Append(@, s),
              !.used_seed_offsets = @ \cup {S.seed_offset},
              !.checked = IF check_repeats THEN @ \cup {s} ELSE @]

\* Streams.add(stream, check_repeats): the registry after a successful add
AddResult(R, s, S, check_repeats) ==
    [R EXCEPT !.streams = Append(@, s),
              !.used_seed_offsets =
                  IF check_repeats THEN @ \cup {S.seed_offset} ELSE @,
              !.checked = IF check_repeats THEN @ \cup {s} ELSE @]

\* Streams.add(stream, check_repeats) called directly
StreamsAdd(r, s, check_repeats) ==
    LET S == st[s]
        outcome == AddOutcome(reg[r], S, check_repeats)
    IN
    /\ reg' = IF outcome = "ok"
              THEN [reg EXCEPT ![r] = AddResult(reg[r], s, S, check_repeats)]
              ELSE reg
    /\ ret' = AddRet("add", s, outcome, S, r, check_repeats,
                     ResolvedSeed(reg[r], S))
    /\ UNCHANGED <<st, np_random, options, people>>

----------------------------------------------------------------------------
(* MultiStream *)

\* isinstance(slots, int): n sequential slots, else the table as given
SlotsOf(slots) == IF slots.isint THEN Arange(slots.n) ELSE slots.a

\* Mutant of MultiInitialize: the stream is marked initialized, with its
\* offset for seed, before it registers
MultiInitialize_MarksFirst(s, r, slots) ==
    LET S == st[s] IN
    /\ S.kind = "multi"
    /\ UNCHANGED <<np_random, options, people>>
    /\ IF S.initialized
       THEN /\ ret' = Ret("initialize", s, "ok")
            /\ UNCHANGED <<reg, st>>
       ELSE IF r # NoReg /\ AddOutcome(reg[r], S, TRUE) # "ok"
       THEN /\ ret' = AddRet("initialize", s, AddOutcome(reg[r], S, TRUE),
                             S, r, TRUE, None)
            /\ st' = [st EXCEPT ![s].initialized = TRUE,
                                ![s].seed = S.seed_offset]
            /\ UNCHANGED reg
       ELSE LET seed == IF r # NoReg THEN ResolvedSeed(reg[r], S)
                        ELSE S.seed_offset
            IN /\ reg' = IF r # NoReg
                         THEN [reg EXCEPT ![r] = AddResult(reg[r], s, S, TRUE)]
                         ELSE reg
               /\ st' = [st EXCEPT ![s] =
                      [S EXCEPT !.seed = seed, !.slots = SlotsOf(slots),
                                !.state = PCG64(seed), !.init_state = PCG64(seed),
                                !.initialized = TRUE, !.ready = TRUE,
                                !.base = IF r # NoReg THEN reg[r].base_seed
                                         ELSE None]]
               /\ ret' = AddRet("initialize", s, "ok", S, r, r # NoReg,
                                IF r # NoReg THEN seed ELSE None)

\* Mutant of MultiInitialize: on an initialized stream only the
\* registration is skipped; slots and ready are set again
MultiInitialize_SetsAgain(s, r, slots) ==
    LET S == st[s] IN
    /\ S.kind = "multi"
    /\ UNCHANGED <<np_random, options, people>>
    /\ IF S.initialized
       THEN /\ ret' = Ret("initialize", s, "ok")
            /\ st' = [st EXCEPT ![s].slots = SlotsOf(slots), ![s].ready = TRUE]
            /\ UNCHANGED reg
       ELSE IF r # NoReg /\ AddOutcome(reg[r], S, TRUE) # "ok"
       THEN /\ ret' = AddRet("initialize", s, AddOutcome(reg[r], S, TRUE),
                             S, r, TRUE, None)
            /\ UNCHANGED <<reg, st>>
       ELSE LET seed == IF r # NoReg THEN ResolvedSeed(reg[r], S)
                        ELSE S.seed_offset
            IN /\ reg' = IF r # NoReg
                         THEN [reg EXCEPT ![r] = AddResult(reg[r], s, S, TRUE)]
                         ELSE reg
               /\ st' = [st EXCEPT ![s] =
                      [S EXCEPT !.seed = seed, !.slots = SlotsOf(slots),
                                !.state = PCG64(seed), !.init_state = PCG64(seed),
                                !.initialized = TRUE, !.ready = TRUE,
                                !.base = IF r # NoReg THEN reg[r].base_seed
                                         ELSE None]]
               /\ ret' = AddRet("initialize", s, "ok", S, r, r # NoReg,
                                IF r # NoReg THEN seed ELSE None)

\* MultiStream.initialize(streams, slots)
MultiInitialize(s, r, slots) ==
    LET S == st[s] IN
    /\ S.kind = "multi"
    /\ UNCHANGED <<np_random, options, people>>
    /\ IF S.initialized
       THEN /\ ret' = Ret("initialize", s, "ok")
            /\ UNCHANGED <<reg, st>>
       ELSE IF r # NoReg /\ AddOutcome(reg[r], S, TRUE) # "ok"
       THEN /\ ret' = AddRet("initialize", s, AddOutcome(reg[r], S, TRUE),
                             S, r, TRUE, None)
            /\ UNCHANGED <<reg, st>>
       ELSE LET seed == IF r # NoReg THEN ResolvedSeed(reg[r], S)
                        ELSE S.seed_offset
            IN /\ reg' = IF r # NoReg
                         THEN [reg EXCEPT ![r] = AddResult(reg[r], s, S, TRUE)]
                         ELSE reg
               /\ st' = [st EXCEPT ![s] =
                      [S EXCEPT !.seed = seed, !.slots = SlotsOf(slots),
                                !.state = PCG64(seed), !.init_state = PCG64(seed),
                                !.initialized = TRUE, !.ready = TRUE,
                                !.base = IF r # NoReg THEN reg[r].base_seed
                                         ELSE None]]
               /\ ret' = AddRet("initialize", s, "ok", S, r, r # NoReg,
                                IF r # NoReg THEN seed ELSE None)

\* Mutant of MultiReset: the generator state is restored, ready is not set
MultiReset_NotReady(S) ==
    [S EXCEPT !.state = S.init_state, !.at = None, !.sampled = FALSE]

\* Mutant of MultiReset: ready is set, the generator state is not restored
MultiReset_KeepsState(S) ==
    [S EXCEPT !.ready = TRUE, !.at = None, !.sampled = FALSE]

\* MultiStream.reset(): the stream afterwards
MultiReset(S) ==
    [S EXCEPT !.state = S.init_state, !.ready = TRUE, !.at = None,
              !.sampled = FALSE]

\* Mutant of MultiStep: the jumps are taken from the current state, with no
\* reset to the initial state first
MultiStep_NoReset(S, ti) ==
    [S EXCEPT !.state = jumped(S.state, ti), !.ready = TRUE, !.at = ti,
              !.sampled = FALSE]

\* MultiStream.step(ti): the stream afterwards
MultiStep(S, ti) ==
    [MultiReset(S) EXCEPT !.state = jumped(MultiReset(S).state, ti), !.at = ti]

\* stream.reset() / stream.step(ti) of either class: the stream afterwards.
\* ti = None stands for reset.  Both are `pass` on a CentralizedStream.
Moved(S, ti) ==
    IF S.kind = "central" THEN S
    ELSE IF ti = None THEN MultiReset(S) ELSE MultiStep(S, ti)

\* reset / step read _init_state, which exists only after initialize()
MoveOutcome(S) ==
    IF S.kind = "multi" /\ ~S.initialized THEN "AttributeError" ELSE "ok"

\* stream.reset()
StreamReset(s) ==
    /\ st' = IF MoveOutcome(st[s]) = "ok"
             THEN [st EXCEPT ![s] = Moved(st[s], None)] ELSE st
    /\ ret' = MoveRet("reset", s, MoveOutcome(st[s]), None, st[s])
    /\ UNCHANGED <<reg, np_random, options, people>>

\* stream.step(ti)
StreamStep(s, ti) ==
    /\ st' = IF MoveOutcome(st[s]) = "ok"
             THEN [st EXCEPT ![s] = Moved(st[s], ti)] ELSE st
    /\ ret' = MoveRet("step", s, MoveOutcome(st[s]), ti, st[s])
    /\ UNCHANGED <<reg, np_random, options, people>>

\* Mutant of LoopMoved: the loop returns after the first stream
LoopMoved_FirstOnly(streams, k, ti) ==
    IF k = 0 THEN [f |-> st, outcome |-> "ok"]
    ELSE IF MoveOutcome(st[streams[1]]) # "ok"
    THEN [f |-> st, outcome |-> MoveOutcome(st[streams[1]])]
    ELSE [f |-> [st EXCEPT ![streams[1]] = Moved(st[streams[1]], ti)],
          outcome |-> "ok"]

\* The loop of Streams.step / Streams.reset over the first k registered
\* streams, in insertion order; it stops at the first stream that raises.
RECURSIVE LoopMoved(_, _, _)
LoopMoved(streams, k, ti) ==
    IF k = 0 THEN [f |-> st, outcome |-> "ok"]
    ELSE LET prev == LoopMoved(streams, k - 1, ti)
             s == streams[k]
         IN IF prev.outcome # "ok" THEN prev
            ELSE IF MoveOutcome(prev.f[s]) # "ok"
            THEN [prev EXCEPT !.outcome = MoveOutcome(prev.f[s])]
            ELSE [prev EXCEPT !.f = [prev.f EXCEPT ![s] = Moved(prev.f[s], ti)]]

\* Streams.step(ti)
StreamsStep(r, ti) ==
    LET res == LoopMoved(reg[r].streams, Len(reg[r].streams), ti) IN
    /\ st' = res.f
    /\ ret' = MoveRet("streams_step", r, res.outcome, ti, Ret("", 0, "").pre)
    /\ UNCHANGED <<reg, np_random, options, people>>

\* Streams.reset()
StreamsReset(r) ==
    LET res == LoopMoved(reg[r].streams, Len(reg[r].streams), None) IN
    /\ st' = res.f
    /\ ret' = Ret("streams_reset", r, res.outcome)
    /\ UNCHANGED <<reg, np_random, options, people>>

----------------------------------------------------------------------------
(* Sampling on a MultiStream: the _pre_draw gate, the draw, _select *)

RECURSIVE SeqMax(_)
SeqMax(a) == IF Len(a) = 1 THEN a[1]
             ELSE LET m == SeqMax(Tail(a)) IN IF a[1] > m THEN a[1] ELSE m

\* self.slots[uids]: defined when every uid indexes the table
InTable(slots, uids) == \A j \in 1..Len(uids) : uids[j] + 1 \in 1..Len(slots)
SlotsAt(slots, uids) == [j \in 1..Len(uids) |-> slots[uids[j] + 1]]

Raise(exc) == [exc |-> exc, empty |-> FALSE, size |-> 0, basis |-> None]
EmptyResult == [exc |-> "ok", empty |-> TRUE, size |-> 0, basis |-> None]

\* Mutant of Readiness: a stream that is not ready is sampled all the same
Readiness_SkipsReady(S, size, basis) ==
    IF ~S.initialized THEN Raise("NotInitializedException")
    ELSE [exc |-> "ok", empty |-> FALSE, size |-> size, basis |-> basis]

\* The readiness checks at the end of check_ready
Readiness(S, size, basis) ==
    IF ~S.initialized THEN Raise("NotInitializedException")
    ELSE IF ~S.ready THEN Raise("NotResetException")
    ELSE [exc |-> "ok", empty |-> FALSE, size |-> size, basis |-> basis]

\* Mutant of PreDraw: the readiness checks come first, before the empty
\* short cut
PreDraw_ChecksFirst(S, arg) ==
    IF arg.kind = "many" \/ arg.kind = "missing" THEN Raise("Exception")
    ELSE IF arg.kind = "int" /\ arg.n < 0 THEN Raise("Exception")
    ELSE IF ~S.initialized THEN Raise("NotInitializedException")
    ELSE IF ~S.ready THEN Raise("NotResetException")
    ELSE IF arg.kind = "int" THEN
        IF arg.n = 0 THEN EmptyResult
        ELSE Readiness(S, arg.n, SIZE)
    ELSE IF Len(arg.a) = 0 THEN EmptyResult
    ELSE IF arg.kind = "mask" THEN Readiness(S, Len(arg.a), BOOLS)
    ELSE IF S.slots = NoSlots THEN Raise("AttributeError")
    ELSE IF ~InTable(S.slots, arg.a) THEN Raise("IndexError")
    ELSE Readiness(S, SeqMax(SlotsAt(S.slots, arg.a)) + 1, UIDS)

\* Mutant of PreDraw: an identifier request draws max(slot) + len(uids) values
PreDraw_MaxPlusCount(S, arg) ==
    IF arg.kind = "many" \/ arg.kind = "missing" THEN Raise("Exception")
    ELSE IF arg.kind = "int" THEN
        IF arg.n < 0 THEN Raise("Exception")
        ELSE IF arg.n = 0 THEN EmptyResult
        ELSE Readiness(S, arg.n, SIZE)
    ELSE IF Len(arg.a) = 0 THEN EmptyResult
    ELSE IF arg.kind = "mask" THEN Readiness(S, Len(arg.a), BOOLS)
    ELSE IF S.slots = NoSlots THEN Raise("AttributeError")
    ELSE IF ~InTable(S.slots, arg.a) THEN Raise("IndexError")
    ELSE Readiness(S, SeqMax(SlotsAt(S.slots, arg.a)) + Len(arg.a), UIDS)

\* _pre_draw.check_ready: the exception raised, the empty short cut, or the
\* size and basis handed to the sampling function
PreDraw(S, arg) ==
    IF arg.kind = "many" \/ arg.kind = "missing" THEN Raise("Exception")
    ELSE IF arg.kind = "int" THEN
        IF arg.n < 0 THEN Raise("Exception")
        ELSE IF arg.n = 0 THEN EmptyResult
        ELSE Readiness(S, arg.n, SIZE)
    ELSE IF Len(arg.a) = 0 THEN EmptyResult
    ELSE IF arg.kind = "mask" THEN Readiness(S, Len(arg.a), BOOLS)
    ELSE IF S.slots = NoSlots THEN Raise("AttributeError")
    ELSE IF ~InTable(S.slots, arg.a) THEN Raise("IndexError")
    ELSE Readiness(S, SeqMax(SlotsAt(S.slots, arg.a)) + 1, UIDS)

\* Mutant of MaskSelect: the first count(mask) values, whatever the positions
MaskSelect_Leading(vals, mask) ==
    SubSeq(vals, 1, Cardinality({i \in 1..Len(mask) : mask[i]}))

\* vals[mask]: the values at the true positions, in order
RECURSIVE MaskSelect(_, _)
MaskSelect(vals, mask) ==
    IF Len(mask) = 0 THEN <<>>
    ELSE IF mask[Len(mask)]
         THEN Append(MaskSelect(SubSeq(vals, 1, Len(mask) - 1),
                                SubSeq(mask, 1, Len(mask) - 1)), vals[Len(mask)])
         ELSE MaskSelect(SubSeq(vals, 1, Len(mask) - 1),
                         SubSeq(mask, 1, Len(mask) - 1))

\* Mutant of Select: the position in the request indexes the drawn values
Select_ByPosition(S, vals, basis, a) ==
    IF basis = SIZE THEN vals
    ELSE IF basis = UIDS THEN [j \in 1..Len(a) |-> vals[j]]
    ELSE MaskSelect(vals, a)

\* Mutant of Select: the identifiers themselves index the drawn values
Select_ByUid(S, vals, basis, a) ==
    IF basis = SIZE THEN vals
    ELSE IF basis = UIDS THEN [j \in 1..Len(a) |-> vals[a[j] + 1]]
    ELSE MaskSelect(vals, a)

\* MultiStream._select(vals, basis, uids)
Select(S, vals, basis, a) ==
    IF basis = SIZE THEN vals
    ELSE IF basis = UIDS
         THEN [j \in 1..Len(a) |-> vals[SlotsAt(S.slots, a)[j] + 1]]
    ELSE MaskSelect(vals, a)

\* What the sampling function returns from the selected values:
\* random returns them, bernoulli compares them with prob
Returned(dist, prob, sel) ==
    IF dist = "bernoulli" THEN [j \in 1..Len(sel) |-> sel[j] < prob] ELSE sel

\* What a sampling call that passed the gate with (size, basis) returns
SampleValue(S, dist, prob, size, basis, a) ==
    Returned(dist, prob, Select(S, DrawVals(S.state, size), basis, a))

\* Mutant of Consumed: the draw is made but ready is left as it was
Consumed_StillReady(S, size) ==
    [S EXCEPT !.state = DrawState(S.state, size), !.sampled = TRUE]

\* The stream after a call that passed the gate: ready is cleared, and the
\* generator has delivered size values
Consumed(S, size) ==
    [S EXCEPT !.ready = FALSE, !.state = DrawState(S.state, size),
              !.sampled = TRUE]

\* Mutant of MultiSample: ready is one flag shared by the slot-indexed
\* streams, so that a request on one stream consumes them all
MultiSample_SharedReady(s, dist, prob, arg) ==
    LET S == st[s]
        g == PreDraw(S, arg)
        after(x) == IF x = s THEN Consumed(S, g.size)
                    ELSE IF st[x].kind = "multi" THEN [st[x] EXCEPT !.ready = FALSE]
                    ELSE st[x]
    IN
    /\ S.kind = "multi"
    /\ UNCHANGED <<reg, np_random, options, people>>
    /\ IF g.exc # "ok" \/ g.empty
       THEN /\ st' = st
            /\ ret' = SampleRet(s, g.exc, arg, dist, prob, None, 0, <<>>, S)
       ELSE /\ st' = [st EXCEPT ![1] = after(1), ![2] = after(2), ![3] = after(3)]
            /\ ret' = SampleRet(s, "ok", arg, dist, prob, g.basis, g.size,
                       SampleValue(S, dist, prob, g.size, g.basis, arg.a), S)

\* The call of the sampling function itself, func(self, size=size,
\* basis=basis, **kwargs): bernoulli has a required argument prob, and
\* Python raises TypeError, before anything is drawn, when it is not given
\* (prob = None)
FuncOutcome(dist, prob) ==
    IF dist = "bernoulli" /\ prob = None THEN "TypeError" ELSE "ok"

\* Mutant of MultiSample: ready is cleared before the stream is tested to
\* be initialized and ready
MultiSample_ClearsFirst(s, dist, prob, arg) ==
    LET S == st[s]
        g == PreDraw(S, arg)
    IN
    /\ S.kind = "multi"
    /\ UNCHANGED <<reg, np_random, options, people>>
    /\ IF g.exc # "ok" \/ g.empty
       THEN /\ st' = IF g.exc \in {"NotInitializedException", "NotResetException"}
                     THEN [st EXCEPT ![s].ready = FALSE] ELSE st
            /\ ret' = SampleRet(s, g.exc, arg, dist, prob, None, 0, <<>>, S)
       ELSE IF FuncOutcome(dist, prob) # "ok"
       THEN /\ st' = [st EXCEPT ![s].ready = FALSE]
            /\ ret' = SampleRet(s, FuncOutcome(dist, prob), arg, dist, prob,
                                g.basis, g.size, <<>>, S)
       ELSE /\ st' = [st EXCEPT ![s] = Consumed(S, g.size)]
            /\ ret' = SampleRet(s, "ok", arg, dist, prob, g.basis, g.size,
                       SampleValue(S, dist, prob, g.size, g.basis, arg.a), S)

\* Mutant of MultiSample: ready is cleared after the sampling function has
\* returned
MultiSample_ReadyAfterDraw(s, dist, prob, arg) ==
    LET S == st[s]
        g == PreDraw(S, arg)
    IN
    /\ S.kind = "multi"
    /\ UNCHANGED <<reg, np_random, options, people>>
    /\ IF g.exc # "ok" \/ g.empty
       THEN /\ st' = st
            /\ ret' = SampleRet(s, g.exc, arg, dist, prob, None, 0, <<>>, S)
       ELSE IF FuncOutcome(dist, prob) # "ok"
       THEN /\ st' = st
            /\ ret' = SampleRet(s, FuncOutcome(dist, prob), arg, dist, prob,
                                g.basis, g.size, <<>>, S)
       ELSE /\ st' = [st EXCEPT ![s] = Consumed(S, g.size)]
            /\ ret' = SampleRet(s, "ok", arg, dist, prob, g.basis, g.size,
                       SampleValue(S, dist, prob, g.size, g.basis, arg.a), S)

\* MultiStream.random / MultiStream.bernoulli behind _pre_draw: check_ready
\* clears ready and then calls the sampling function
MultiSample(s, dist, prob, arg) ==
    LET S == st[s]
        g == PreDraw(S, arg)
    IN
    /\ S.kind = "multi"
    /\ UNCHANGED <<reg, np_random, options, people>>
    /\ IF g.exc # "ok" \/ g.empty
       THEN /\ st' = st
            /\ ret' = SampleRet(s, g.exc, arg, dist, prob, None, 0, <<>>, S)
       ELSE IF FuncOutcome(dist, prob) # "ok"
       THEN /\ st' = [st EXCEPT ![s].ready = FALSE]
            /\ ret' = SampleRet(s, FuncOutcome(dist, prob), arg, dist, prob,
                                g.basis, g.size, <<>>, S)
       ELSE /\ st' = [st EXCEPT ![s] = Consumed(S, g.size)]
            /\ ret' = SampleRet(s, "ok", arg, dist, prob, g.basis, g.size,
                       SampleValue(S, dist, prob, g.size, g.basis, arg.a), S)

\* Mutant of FilterFlags: the flags come from the first len(uids) values
\* drawn, without the slot lookup
FilterFlags_Unindexed(S, prob, size, a) ==
    Returned("bernoulli", prob, SubSeq(DrawVals(S.state, size), 1, Len(a)))

\* self.bernoulli(size=uids, prob=prob) once past the gate: one flag per
\* identifier
FilterFlags(S, prob, size, a) == SampleValue(S, "bernoulli", prob, size, UIDS, a)

\* MultiStream.bernoulli_filter(uids, prob):
\* uids[self.bernoulli(size=uids, prob=prob)]
MultiBernoulliFilter(s, prob, a) ==
    LET S == st[s]
        g == PreDraw(S, UidArg(a))
        rec(outcome, size, vals) ==
            [SampleRet(s, outcome, UidArg(a), "bernoulli", prob,
                       IF size > 0 THEN UIDS ELSE None, size, vals, S)
             EXCEPT !.op = "bernoulli_filter"]
    IN
    /\ S.kind = "multi"
    /\ UNCHANGED <<reg, np_random, options, people>>
    /\ IF g.exc # "ok" \/ g.empty
       THEN /\ st' = st
            /\ ret' = rec(g.exc, 0, <<>>)
       ELSE /\ st' = [st EXCEPT ![s] = Consumed(S, g.size)]
            /\ ret' = rec("ok", g.size, MaskSelect(a, FilterFlags(S, prob, g.size, a)))

----------------------------------------------------------------------------
(* CentralizedStream *)

\* Mutant of CentralInitialize: the stream registers with the repeat check
\* switched on
CentralInitialize_Checked(s, r) ==
    LET S == st[s] IN
    /\ S.kind = "central"
    /\ UNCHANGED <<np_random, options, people>>
    /\ IF S.initialized
       THEN /\ ret' = Ret("initialize", s, "ok")
            /\ UNCHANGED <<reg, st>>
       ELSE IF r # NoReg /\ AddOutcome(reg[r], S, TRUE) # "ok"
       THEN /\ ret' = AddRet("initialize", s, AddOutcome(reg[r], S, TRUE),
                             S, r, TRUE, None)
            /\ UNCHANGED <<reg, st>>
       ELSE /\ reg' = IF r # NoReg
                      THEN [reg EXCEPT ![r] = AddResult(reg[r], s, S, TRUE)]
                      ELSE reg
            /\ st' = [st EXCEPT ![s].initialized = TRUE]
            /\ ret' = AddRet("initialize", s, "ok", S, r, TRUE,
                             IF r # NoReg THEN ResolvedSeed(reg[r], S) ELSE None)

\* CentralizedStream.initialize(streams, slots)
CentralInitialize(s, r) ==
    LET S == st[s] IN
    /\ S.kind = "central"
    /\ UNCHANGED <<np_random, options, people>>
    /\ IF S.initialized
       THEN /\ ret' = Ret("initialize", s, "ok")
            /\ UNCHANGED <<reg, st>>
       ELSE IF r # NoReg /\ AddOutcome(reg[r], S, FALSE) # "ok"
       THEN /\ ret' = AddRet("initialize", s, AddOutcome(reg[r], S, FALSE),
                             S, r, FALSE, None)
            /\ UNCHANGED <<reg, st>>
       ELSE /\ reg' = IF r # NoReg
                      THEN [reg EXCEPT ![r] = AddResult(reg[r], s, S, FALSE)]
                      ELSE reg
            /\ st' = [st EXCEPT ![s].initialized = TRUE]
            /\ ret' = AddRet("initialize", s, "ok", S, r, FALSE,
                             IF r # NoReg THEN ResolvedSeed(reg[r], S) ELSE None)

CountTrue(mask) == Cardinality({i \in 1..Len(mask) : mask[i]})

\* Mutant of PreDrawCentralized: a negative count is taken for an empty
\* request
PreDrawCentralized_NoNegCheck(arg) ==
    IF arg.kind = "many" \/ arg.kind = "missing" THEN Raise("Exception")
    ELSE IF arg.kind = "int" THEN
        IF arg.n <= 0 THEN EmptyResult
        ELSE [exc |-> "ok", empty |-> FALSE, size |-> arg.n, basis |-> None]
    ELSE IF Len(arg.a) = 0 THEN EmptyResult
    ELSE IF arg.kind = "mask"
         THEN [exc |-> "ok", empty |-> FALSE, size |-> CountTrue(arg.a), basis |-> None]
    ELSE [exc |-> "ok", empty |-> FALSE, size |-> Len(arg.a), basis |-> None]

\* Mutant of PreDrawCentralized: a mask draws one value per mask entry, as
\* the slot-indexed gate does
PreDrawCentralized_MaskLen(arg) ==
    IF arg.kind = "many" \/ arg.kind = "missing" THEN Raise("Exception")
    ELSE IF arg.kind = "int" THEN
        IF arg.n < 0 THEN Raise("Exception")
        ELSE IF arg.n = 0 THEN EmptyResult
        ELSE [exc |-> "ok", empty |-> FALSE, size |-> arg.n, basis |-> None]
    ELSE IF Len(arg.a) = 0 THEN EmptyResult
    ELSE [exc |-> "ok", empty |-> FALSE, size |-> Len(arg.a), basis |-> None]

\* _pre_draw_centralized.check_ready
PreDrawCentralized(arg) ==
    IF arg.kind = "many" \/ arg.kind = "missing" THEN Raise("Exception")
    ELSE IF arg.kind = "int" THEN
        IF arg.n < 0 THEN Raise("Exception")
        ELSE IF arg.n = 0 THEN EmptyResult
        ELSE [exc |-> "ok", empty |-> FALSE, size |-> arg.n, basis |-> None]
    ELSE IF Len(arg.a) = 0 THEN EmptyResult
    ELSE IF arg.kind = "mask"
         THEN [exc |-> "ok", empty |-> FALSE, size |-> CountTrue(arg.a), basis |-> None]
    ELSE [exc |-> "ok", empty |-> FALSE, size |-> Len(arg.a), basis |-> None]

\* CentralizedStream.random (numpy.random.random through __getattr__) and
\* CentralizedStream.bernoulli behind _pre_draw_centralized
CentralSample(s, dist, prob, arg) ==
    LET S == st[s]
        g == PreDrawCentralized(arg)
    IN
    /\ S.kind = "central"
    /\ UNCHANGED <<reg, st, options, people>>
    /\ IF g.exc # "ok" \/ g.empty
       THEN /\ np_random' = np_random
            /\ ret' = SampleRet(s, g.exc, arg, dist, prob, None, 0, <<>>, S)
       ELSE /\ np_random.pos + g.size <= MaxGlobalPos
            /\ np_random' = DrawState(np_random, g.size)
            /\ ret' = SampleRet(s, "ok", arg, dist, prob, None, g.size,
                                Returned(dist, prob, DrawVals(np_random, g.size)), S)

----------------------------------------------------------------------------
(* ScipyDistribution.starsim_gen.rvs: the number of samples and the        *)
(* per-agent parameter arrays (src/stisim/distributions.py)                *)

\* The sentinel stored in the slot table for an identifier without a slot,
\* scaled down; it is larger than every assigned slot
INT_NAN == 5

RECURSIVE SeqSum(_)
SeqSum(a) == IF Len(a) = 0 THEN 0 ELSE a[1] + SeqSum(Tail(a))

\* rvs, first part: the number of samples n_samples for the request, with
\* the stream S as random_state; multirng is options.multirng
RvsSamples(S, multirng, arg) ==
    IF arg.kind = "int" THEN
        IF arg.n < 0 THEN Raise("Exception")
        ELSE IF arg.n = 0 THEN EmptyResult
        ELSE [exc |-> "ok", empty |-> FALSE, size |-> arg.n, basis |-> SIZE]
    ELSE IF Len(arg.a) = 0 THEN EmptyResult
    ELSE IF arg.kind = "mask" THEN
        [exc |-> "ok", empty |-> FALSE, basis |-> BOOLS,
         size |-> IF multirng THEN Len(arg.a) ELSE CountTrue(arg.a)]
    ELSE IF ~multirng THEN
        [exc |-> "ok", empty |-> FALSE, size |-> Len(arg.a), basis |-> UIDS]
    ELSE IF S.slots = NoSlots THEN Raise("Exception")
    ELSE IF ~InTable(S.slots, arg.a) THEN Raise("IndexError")
    ELSE IF SeqMax(SlotsAt(S.slots, arg.a)) = INT_NAN THEN Raise("Exception")
    ELSE [exc |-> "ok", empty |-> FALSE, basis |-> UIDS,
          size |-> SeqMax(SlotsAt(S.slots, arg.a)) + 1]

\* The Exception raised for a parameter array of the wrong length
ParameterLengthError == "Exception: length of the parameters must match"

\* len(size) and sum(size) of an array request
LenOfSize(arg) == Len(arg.a)
SumOfSize(arg) == IF arg.kind = "mask" THEN CountTrue(arg.a) ELSE SeqSum(arg.a)

\* vals_all = np.full(n_samples, 1); vals_all[size] = param: the ways the
\* assignment can end.  A mask must have n_samples entries; identifiers
\* index vals_all directly and must be below n_samples; the parameter array
\* must have one value per selected entry, or one value in all (numpy
\* broadcasts it).
AssignOutcomes(arg, n_samples, par) ==
    LET selected == IF arg.kind = "mask" THEN CountTrue(arg.a) ELSE Len(arg.a)
        outside == IF arg.kind = "mask" THEN Len(arg.a) # n_samples
                   ELSE \E j \in 1..Len(arg.a) : arg.a[j] >= n_samples
        shapes == par = selected \/ par = 1
    IN  (IF outside THEN {"IndexError"} ELSE {})
        \cup (IF ~shapes /\ ~(arg.kind = "mask" /\ outside) THEN {"ValueError"} ELSE {})
        \cup (IF ~outside /\ shapes THEN {"ok"} ELSE {})

\* rvs, second part: the ways the handling of a parameter array of length
\* par can end (par = None: the parameter is a scalar)
ParamOutcomes(arg, n_samples, par) ==
    IF par = None \/ par = n_samples THEN {"ok"}
    ELSE IF arg.kind = "int" THEN {"TypeError"}
    ELSE IF par \notin {LenOfSize(arg), SumOfSize(arg)} THEN {ParameterLengthError}
    ELSE AssignOutcomes(arg, n_samples, par)

\* The parameter array of length par handed to rvs: its j-th entry is
\* labelled ParamBase + j
ParamBase == 10
ParamArray(par) == [j \in 1..par |-> ParamBase + j]

\* np.full(n_samples, fill_value=1)
FillValue == 1

\* kwargs[pname] as it is handed to scipy's rvs: the array itself when it has
\* n_samples entries, and otherwise vals_all, the placeholder everywhere but
\* at the indices `size` (the mask's true positions, or the identifiers
\* themselves), which receive the array, or its one value
ExpandedParam(arg, n_samples, par) ==
    IF par = n_samples THEN ParamArray(par)
    ELSE LET param == ParamArray(par)
             at(j) == IF par = 1 THEN param[1] ELSE param[j]
             rank(i) == Cardinality({k \in 1..i : arg.a[k]})
         IN [i \in 1..n_samples |->
                IF arg.kind = "mask"
                THEN IF arg.a[i] THEN at(rank(i)) ELSE FillValue
                ELSE IF \E j \in 1..Len(arg.a) : arg.a[j] = i - 1
                     THEN at(CHOOSE j \in 1..Len(arg.a) : arg.a[j] = i - 1)
                     ELSE FillValue]

\* The selection at the end of rvs, applied to the parameters: for each
\* value returned, the parameter its draw was made with
UsedParams(S, multirng, arg, n_samples, par) ==
    LET all == ExpandedParam(arg, n_samples, par) IN
    IF ~multirng \/ arg.kind = "int" THEN all
    ELSE IF arg.kind = "mask" THEN MaskSelect(all, arg.a)
    ELSE [j \in 1..Len(arg.a) |-> all[SlotsAt(S.slots, arg.a)[j] + 1]]

\* rvs(size=arg, p=<array of length par>) up to the call of scipy's rvs,
\* which is not part of the source tree: ret records whether that call is
\* reached ("ok"), with how many samples, and with which parameter each
\* returned value is drawn
Rvs(s, multirng, arg, par) ==
    LET S == st[s]
        g == RvsSamples(S, multirng, arg)
        rec(outcome, size) ==
            [SampleRet(s, outcome, arg, "bernoulli", ValRange \div 2,
                       IF size > 0 THEN g.basis ELSE None, size, <<>>, S)
             EXCEPT !.op = "rvs", !.multirng = multirng, !.par = par,
                    !.used = IF outcome = "ok" /\ size > 0 /\ par # None
                             THEN UsedParams(S, multirng, arg, size, par)
                             ELSE <<>>]
    IN
    /\ S.kind = "multi"
    /\ UNCHANGED <<reg, st, np_random, options, people>>
    /\ IF g.exc # "ok" \/ g.empty
       THEN ret' = rec(g.exc, 0)
       ELSE \E o \in ParamOutcomes(arg, g.size, par) : ret' = rec(o, g.size)

----------------------------------------------------------------------------
(* Construction of the objects *)

\* BasePeople.__init__(n): n agents with uids 0 .. n-1, uid u at index u, and
\* no State registered.  nstates is len(self._states); state_len is the
\* length of the array of every registered State.
BasePeople__init__(n) ==
    [_uid_map |-> Arange(n), uid |-> Arange(n), nstates |-> 0, state_len |-> 0]

\* ss.options: the mode flag read by the Stream factory
options__init__ == [multistream |-> TRUE]

Construct(kind, name, seed_offset) ==
    IF kind = "multi" THEN MultiStream__init__(name, seed_offset)
    ELSE CentralizedStream__init__(name, seed_offset)

NumpySeed == 0

InitObjects(objects) ==
    /\ reg = [r \in Regs |-> Streams__init__]
    /\ st = objects
    /\ np_random = PCG64(NumpySeed)
    /\ ret = Ret("construct", 0, "ok")
    /\ options = options__init__
    /\ people = BasePeople__init__(MaxPop)

----------------------------------------------------------------------------
(* SpecSlots: one slot-indexed stream, alone or in a registry, sampled     *)
(* with every size, identifier array and mask within the bounds            *)

InitSlots ==
    InitObjects(<<Construct("multi", "infect", None),
                  Construct("multi", "death", None),
                  Construct("central", "infect", None)>>)

NextSlots ==
    \/ StreamsInitialize(1, 42)
    \/ \E r \in {1, NoReg}, slots \in SlotInputs : MultiInitialize(1, r, slots)
    \/ StreamReset(1)
    \/ \E ti \in 0..MaxTi : StreamStep(1, ti)
    \/ StreamsReset(1)
    \/ \E ti \in 0..MaxTi : StreamsStep(1, ti)
    \/ \E dist \in Dists, prob \in Probs, arg \in SizeArgs :
           MultiSample(1, dist, prob, arg)
    \/ \E dist \in Dists, prob \in Probs, arg \in MaskArgs :
           MultiSample(1, dist, prob, arg)

SpecSlots == InitSlots /\ [][NextSlots]_vars

----------------------------------------------------------------------------
(* Spec: a registry with two slot-indexed streams, each sampled with one    *)
(* request of every kind                                                   *)

Init ==
    InitObjects(<<Construct("multi", "infect", None),
                  Construct("multi", "death", None),
                  Construct("central", "network", None)>>)

GateArgs == {IntArg(-1), IntArg(0), IntArg(1), UidArg(<<>>), UidArg(<<0>>),
             UidArg(<<1, 0>>), NoSizeArg, ManyArgs}
GateMasks == {MaskArg(<<>>), MaskArg(<<FALSE, TRUE>>)}
NamedSizeArgs == {WithPositional(IntArg(1), 1)}

Next ==
    \/ StreamsInitialize(1, 42)
    \/ \E s \in {1, 2} : MultiInitialize(s, 1, IntSlots(MaxPop))
    \/ \E s \in {1, 2} : StreamReset(s)
    \/ \E s \in {1, 2}, ti \in 0..MaxTi : StreamStep(s, ti)
    \/ StreamsReset(1)
    \/ \E ti \in 0..MaxTi : StreamsStep(1, ti)
    \/ \E s \in {1, 2}, dist \in Dists, prob \in Probs, arg \in GateArgs :
           MultiSample(s, dist, prob, arg)
    \/ \E s \in {1, 2}, dist \in Dists, prob \in Probs, arg \in GateMasks :
           MultiSample(s, dist, prob, arg)

Spec == Init /\ [][Next]_vars

----------------------------------------------------------------------------
(* SpecGate: a slot-indexed and a centralized stream in one registry *)

NextGate ==
    \/ StreamsInitialize(1, 42)
    \/ MultiInitialize(1, 1, IntSlots(MaxPop))
    \/ CentralInitialize(3, 1)
    \/ \E s \in {1, 3} : StreamReset(s)
    \/ \E s \in {1, 3}, ti \in 0..MaxTi : StreamStep(s, ti)
    \/ StreamsReset(1)
    \/ \E ti \in 0..MaxTi : StreamsStep(1, ti)
    \/ \E dist \in Dists, prob \in Probs, arg \in GateArgs \cup NamedSizeArgs :
           MultiSample(1, dist, prob, arg)
    \/ \E dist \in Dists, prob \in Probs, arg \in GateMasks :
           MultiSample(1, dist, prob, arg)
    \/ \E dist \in Dists, prob \in Probs, arg \in GateArgs \cup NamedSizeArgs :
           CentralSample(3, dist, prob, arg)
    \/ \E dist \in Dists, prob \in Probs, arg \in GateMasks :
           CentralSample(3, dist, prob, arg)

SpecGate == Init /\ [][NextGate]_vars

----------------------------------------------------------------------------
(* SpecRuns: two runs, each with its own registry.  Stream 1 belongs to    *)
(* run 1 and stream 2 to run 2, under the same name; stream 3 is another   *)
(* stream, which run 2 may hold, registered before or after stream 2.      *)
(* Run 2 chooses its base seed and its slot table; the runs advance and    *)
(* sample independently.                                                   *)

InitRuns ==
    InitObjects(<<Construct("multi", "infect", None),
                  Construct("multi", "infect", None),
                  Construct("multi", "death", None)>>)

RunSeeds(r) == IF r = 1 THEN {42} ELSE {42, 43}
RunSlots(r) == IF r = 1 THEN {IntSlots(MaxPop)} ELSE SlotInputs
RunArgs == {IntArg(1), UidArg(<<1>>), UidArg(<<0, 1>>)}

NextRuns ==
    \/ \E r \in Regs : \E b \in RunSeeds(r) : StreamsInitialize(r, b)
    \/ \E s \in {1, 2} : \E slots \in RunSlots(s) : MultiInitialize(s, s, slots)
    \/ MultiInitialize(3, 2, IntSlots(MaxPop))
    \/ \E r \in Regs : StreamsReset(r)
    \/ \E r \in Regs, ti \in 0..MaxTi : StreamsStep(r, ti)
    \/ \E s \in {1, 2}, prob \in Probs, arg \in RunArgs :
           MultiSample(s, "random", prob, arg)

SpecRuns == InitRuns /\ [][NextRuns]_vars

----------------------------------------------------------------------------
(* SpecShared: one registry holding a slot-indexed stream, a centralized    *)
(* stream, and a third stream of either class                              *)

InitShared ==
    \E kind \in {"multi", "central"} :
        InitObjects(<<Construct("multi", "infect", None),
                      Construct(kind, "death", None),
                      Construct("central", "network", None)>>)

NextShared ==
    \/ StreamsInitialize(1, 42)
    \/ \E s \in {1, 2} : MultiInitialize(s, 1, IntSlots(MaxPop))
    \/ \E s \in {2, 3} : CentralInitialize(s, 1)
    \/ \E ti \in 0..MaxTi : StreamsStep(1, ti)
    \/ \E s \in {1, 2}, prob \in Probs, arg \in RunArgs :
           MultiSample(s, "random", prob, arg)
    \/ \E prob \in Probs, arg \in RunArgs :
           CentralSample(3, "random", prob, arg)

SpecShared == InitShared /\ [][NextShared]_vars

----------------------------------------------------------------------------
(* SpecRegistry: one registry and three streams of any class, name and     *)
(* seed offset, registered by their initialize() or by Streams.add directly *)

\* An explicit seed_offset, as a test passes one
GivenOffset == 7

Constructions ==
    {Construct("multi", "infect", None), Construct("multi", "infect", GivenOffset),
     Construct("multi", "death", GivenOffset),
     Construct("central", "network", None), Construct("central", "infect", None)}

InitRegistry == \E objects \in [1..3 -> Constructions] : InitObjects(objects)

NextRegistry ==
    \/ StreamsInitialize(1, 42)
    \/ \E s \in StreamIds : MultiInitialize(s, 1, IntSlots(MaxPop))
    \/ \E s \in StreamIds : CentralInitialize(s, 1)
    \/ \E s \in StreamIds, check_repeats \in BOOLEAN :
           StreamsAdd(1, s, check_repeats)

SpecRegistry == InitRegistry /\ [][NextRegistry]_vars

----------------------------------------------------------------------------
(* Claims about the values a slot-indexed stream returns (SpecSlots) *)

\* The value a sampling function returns for one underlying value
ValueOf(dist, prob, v) == IF dist = "bernoulli" THEN v < prob ELSE v

IsSample(basis) == ret.op = "sample" /\ ret.outcome = "ok" /\ ret.basis = basis

\* C1: slot invariance.  In a successful identifier request the value
\* returned for an identifier whose slot is k is the k-th value the
\* generator delivers from the state the call found it in, whatever the
\* other identifiers of the call are; and when the call is made after
\* step(ti) that value is the one at position ti * Jump + k of the seed's
\* sequence, whatever was sampled before (so after step(0), and again after
\* reset and step(0), the identifier with slot k gets the same value alone
\* or together with others).
C1_SlotInvariance ==
    IsSample(UIDS) =>
        \A j \in 1..Len(ret.arg.a) :
            LET k == ret.pre.slots[ret.arg.a[j] + 1] IN
            /\ ret.vals[j] = ValueOf(ret.dist, ret.prob,
                   Output(ret.pre.seed, (ret.pre.state.pos + k) % Period))
            /\ ret.pre.at # None =>
                   ret.vals[j] = ValueOf(ret.dist, ret.prob,
                       Output(ret.pre.seed, (ret.pre.at * Jump + k) % Period))

\* C1 witness: after step(0), identifiers 0 and 1 with slots 3 and 1 are
\* sampled together
C1_Witness ==
    /\ IsSample(UIDS)
    /\ ret.pre.at = 0
    /\ ret.pre.slots = <<3, 1>>
    /\ ret.arg.a = <<0, 1>>
    /\ ret.dist = "bernoulli"

\* C2: a non-empty identifier request draws max(slot) + 1 values, the
\* generator advances by as many, and the result has one value per
\* identifier, in the order given, the j-th being the drawn value at the
\* slot of the j-th identifier.
C2_UidDrawSize ==
    IsSample(UIDS) =>
        LET slots == [j \in 1..Len(ret.arg.a) |-> ret.pre.slots[ret.arg.a[j] + 1]]
            drawn == DrawVals(ret.pre.state, ret.size)
        IN
        /\ \A j \in 1..Len(slots) : slots[j] + 1 <= ret.size
        /\ \E j \in 1..Len(slots) : slots[j] + 1 = ret.size
        /\ st[ret.s].state.pos = (ret.pre.state.pos + ret.size) % Period
        /\ Len(ret.vals) = Len(ret.arg.a)
        /\ \A j \in 1..Len(slots) :
               ret.vals[j] = ValueOf(ret.dist, ret.prob, drawn[slots[j] + 1])

\* C2 witness: with integer slots, identifiers 0 and 2 draw 3 values
C2_Witness ==
    /\ IsSample(UIDS)
    /\ ret.pre.slots = Arange(MaxPop)
    /\ ret.arg.a = <<0, 2>>
    /\ ret.size = 3
    /\ ret.dist = "random"

\* C9: a non-empty mask request draws as many values as the mask is long,
\* and returns the drawn values at the true positions, in population order:
\* the value for a selected position i is the i-th drawn value.
C9_MaskDrawSize ==
    IsSample(BOOLS) =>
        LET mask == ret.arg.a
            sel == {i \in 1..Len(mask) : mask[i]}
            rank(i) == Cardinality({q \in sel : q <= i})
            drawn == DrawVals(ret.pre.state, Len(mask))
        IN
        /\ ret.size = Len(mask)
        /\ st[ret.s].state.pos = (ret.pre.state.pos + Len(mask)) % Period
        /\ Len(ret.vals) = Cardinality(sel)
        /\ \A i \in sel : ret.vals[rank(i)] = ValueOf(ret.dist, ret.prob, drawn[i])

\* C9 witness: the mask [T, F, T] draws 3 values and returns 2
C9_Witness ==
    /\ IsSample(BOOLS)
    /\ ret.arg.a = <<TRUE, FALSE, TRUE>>
    /\ ret.size = 3
    /\ Len(ret.vals) = 2

\* C5: step(ti) is a function of ti and the recorded initial state: after a
\* successful step(ti), made directly or through the registry, the
\* generator of the stream is at the initial state of its seed jumped ti
\* times and the stream is ready, whatever was sampled, reset or stepped
\* before (with a larger, an equal or a smaller ti).
C5_StepIsFunctionOfTi ==
    \A s \in StreamIds :
        ( /\ st[s].kind = "multi"
          /\ ret.outcome = "ok"
          /\ \/ ret.op = "step" /\ ret.s = s
             \/ ret.op = "streams_step"
                /\ \E i \in 1..Len(reg[ret.s].streams) : reg[ret.s].streams[i] = s )
        => /\ st[s].state = [seed |-> st[s].seed, pos |-> (ret.ti * Jump) % Period]
           /\ st[s].ready

\* C5 witness: a rewind, step(0) on a stream that was sampled after step(1)
C5_Witness ==
    /\ ret.op = "step" /\ ret.outcome = "ok" /\ ret.ti = 0
    /\ ret.pre.at = 1 /\ ret.pre.sampled /\ ~ret.pre.ready
    /\ st[ret.s].state.pos = 0

\* C6: reset() on an initialized slot-indexed stream restores the
\* generator state recorded by initialize() and sets ready, from any state.
C6_ResetRestores ==
    (ret.op = "reset" /\ ret.pre.kind = "multi" /\ ret.pre.initialized) =>
        /\ ret.outcome = "ok"
        /\ st[ret.s].state = PCG64(st[ret.s].seed)
        /\ st[ret.s].state = ret.pre.init_state
        /\ st[ret.s].init_state = ret.pre.init_state
        /\ st[ret.s].ready

\* C6 witness: reset() of a stream that was stepped to 1 and sampled
C6_Witness ==
    /\ ret.op = "reset" /\ ret.outcome = "ok"
    /\ ret.pre.at = 1 /\ ~ret.pre.ready /\ ret.pre.state.pos # 0
    /\ st[ret.s].state.pos = 0

----------------------------------------------------------------------------
(* Claims about two runs (SpecRuns) *)

\* The value the stream S would return for a request in its present state
WouldReturn(S, dist, prob, arg) ==
    SampleValue(S, dist, prob, PreDraw(S, arg).size, PreDraw(S, arg).basis, arg.a)

\* Stream s is a slot-indexed stream of another run than the stream of the
\* last call, with the same name and the same base seed, ready at the
\* timestep index the last call was made at
SameStreamOfOtherRun(s) ==
    /\ s # ret.s
    /\ st[s].kind = "multi" /\ st[s].initialized /\ st[s].ready
    /\ st[s].name = ret.pre.name
    /\ st[s].base = ret.pre.base
    /\ ret.pre.at # None
    /\ st[s].at = ret.pre.at

\* C7: determinism.  When a stream has been sampled with identifiers at a
\* timestep index, the stream of the same name of a run with the same base
\* seed and the same slot table returns the same values for the same
\* identifiers at the same timestep index, whatever other streams either
\* registry holds, in whatever order they registered, and whatever was
\* sampled in either run before.
C7_Determinism ==
    \A s \in StreamIds :
        (IsSample(UIDS) /\ SameStreamOfOtherRun(s) /\ st[s].slots = ret.pre.slots)
        => /\ PreDraw(st[s], ret.arg).exc = "ok"
           /\ WouldReturn(st[s], ret.dist, ret.prob, ret.arg) = ret.vals

\* C7 witness: run 1 holds one stream and run 2 two, the other one
\* registered first; both runs are at timestep 1
C7_Witness ==
    /\ IsSample(UIDS) /\ ret.s = 1
    /\ SameStreamOfOtherRun(2) /\ st[2].slots = ret.pre.slots
    /\ ret.pre.at = 1
    /\ reg[1].streams = <<1>> /\ reg[2].streams = <<3, 2>>

\* C8: population-size invariance.  When agent a has the same slot in two
\* runs with the same seed, the value a gets at a timestep index is the
\* same in both, whatever the size of the slot tables and whatever other
\* identifiers are requested with a (so whatever the number of values
\* drawn).
C8_PopulationSizeInvariance ==
    \A s \in StreamIds, a \in 0..(MaxPop - 1), uids \in UidArrays :
        ( /\ IsSample(UIDS) /\ SameStreamOfOtherRun(s)
          /\ InTable(st[s].slots, uids)
          /\ \E j \in 1..Len(ret.arg.a) : ret.arg.a[j] = a
          /\ \E i \in 1..Len(uids) : uids[i] = a
          /\ st[s].slots[a + 1] = ret.pre.slots[a + 1] )
        => \A j \in 1..Len(ret.arg.a), i \in 1..Len(uids) :
               (ret.arg.a[j] = a /\ uids[i] = a) =>
                   WouldReturn(st[s], ret.dist, ret.prob, UidArg(uids))[i]
                       = ret.vals[j]

\* C8 witness: agent 1 has slot 1 in a population of 3 and in one of 2 whose
\* other agent has slot 3, so that the two runs draw 2 and 4 values
C8_Witness ==
    /\ IsSample(UIDS) /\ SameStreamOfOtherRun(2)
    /\ ret.arg.a = <<0, 1>> /\ ret.size = 2
    /\ Len(ret.pre.slots) = 3 /\ st[2].slots = <<3, 1>>
    /\ PreDraw(st[2], UidArg(<<0, 1>>)).size = 4

----------------------------------------------------------------------------
(* Claims about the ready flag (Spec) *)

\* A request that asks for at least one value and that the gate has no
\* reason of its own to refuse: a positive count, a non-empty mask, or a
\* non-empty identifier array whose identifiers are in the slot table
WellFormed(S, arg) ==
    \/ arg.kind = "int" /\ arg.n > 0
    \/ arg.kind = "mask" /\ Len(arg.a) > 0
    \/ arg.kind = "uids" /\ Len(arg.a) > 0 /\ S.slots # NoSlots
       /\ InTable(S.slots, arg.a)

\* C3: readiness enforcement.  A non-empty sampling call on a slot-indexed
\* stream on which a non-empty sampling call has succeeded, with no step
\* or reset of the stream in between, raises NotResetException, whatever
\* its distribution and basis.
C3_SecondSampleRaises ==
    ( /\ ret.op = "sample"
      /\ ret.pre.kind = "multi"
      /\ ret.pre.sampled
      /\ WellFormed(ret.pre, ret.arg) )
    => ret.outcome = "NotResetException"

\* C3 witness: a mask request refused after an identifier request succeeded
C3_Witness ==
    /\ ret.op = "sample" /\ ret.outcome = "NotResetException"
    /\ ret.pre.sampled
    /\ ret.arg.kind = "mask"

Registered(r, s) == \E i \in 1..Len(reg[r].streams) : reg[r].streams[i] = s

\* C4: the ready flag of a slot-indexed stream goes from true to false on
\* every successful non-empty sampling call on it, and goes from false to
\* true only by a successful reset() or step() of that stream, called
\* directly or by the registry that holds it.
C4_ReadyFlag ==
    [][\A s \in StreamIds :
        st[s].kind = "multi" =>
          /\ (~st[s].ready /\ st'[s].ready) =>
                /\ ret'.outcome = "ok"
                /\ \/ ret'.op \in {"reset", "step"} /\ ret'.s = s
                   \/ ret'.op \in {"streams_reset", "streams_step"}
                      /\ Registered(ret'.s, s)
          /\ ( /\ ret'.op = "sample" /\ ret'.s = s /\ ret'.outcome = "ok"
               /\ WellFormed(st[s], ret'.arg) )
             => (st[s].ready /\ ~st'[s].ready)
      ]_vars

\* C4 witness: initialize() called again on a consumed stream, while another
\* stream is registered, leaves it not ready
C4_Witness ==
    /\ ret.op = "initialize" /\ ret.outcome = "ok"
    /\ st[ret.s].initialized /\ ~st[ret.s].ready
    /\ Len(reg[1].streams) = 2

----------------------------------------------------------------------------
(* Claims about the gate in both modes (SpecGate) *)

ZeroSize(arg) ==
    \/ arg.kind = "int" /\ arg.n = 0
    \/ arg.kind \in {"uids", "mask"} /\ Len(arg.a) = 0

\* C10: zero-size short circuit.  A sampling call with count 0, or with an
\* empty identifier or mask array, returns an empty result and leaves the
\* stream (ready, initialized, generator state) and numpy.random as they
\* were, also on a stream that is not ready or not initialized, on a
\* slot-indexed and on a centralized stream.
C10_ZeroSizeShortCircuit ==
    (ret.op = "sample" /\ ZeroSize(ret.arg)) =>
        /\ ret.outcome = "ok"
        /\ ret.vals = <<>>
        /\ st[ret.s] = ret.pre
        /\ np_random.pos = ret.np0

\* C10 witness: an empty identifier array on a consumed slot-indexed stream
C10_Witness ==
    /\ ret.op = "sample" /\ ret.outcome = "ok"
    /\ ret.arg.kind = "uids" /\ Len(ret.arg.a) = 0
    /\ ret.pre.kind = "multi" /\ ~ret.pre.ready

----------------------------------------------------------------------------
(* Claims about reset() between two requests (SpecSlots) *)

\* The last call was a successful identifier request on a stream that had
\* been stepped to a timestep index, and the step now taken is the call
\* `op` on the same stream, which succeeds
ThenMoved(op) ==
    /\ IsSample(UIDS) /\ ret.pre.at # None
    /\ ret'.op = op /\ ret'.s = ret.s /\ ret'.outcome = "ok"

\* Every identifier of the last request, requested alone from the stream as
\* the step leaves it, is served, with the value the last request returned
\* for it
SameValueAlone ==
    \A j \in 1..Len(ret.arg.a) :
        LET alone == UidArg(<<ret.arg.a[j]>>) IN
        /\ PreDraw(st'[ret.s], alone).exc = "ok"
        /\ WouldReturn(st'[ret.s], ret.dist, ret.prob, alone)[1] = ret.vals[j]

\* C11, as stated: at every timestep index ti, after step(ti) and a request
\* for identifiers {a, b}, a reset() with no further step makes a request
\* for {a} return the value the first request returned for a.
C11_ResetAtAnyTi == [][ThenMoved("reset") => SameValueAlone]_vars

\* C11, amended: the same holds at timestep index 0, where step(0) leaves the
\* generator at its recorded initial state; at a timestep index ti > 0 it
\* holds when the stream is stepped to ti again (step resets first), not
\* after reset() alone, which returns to the initial state.
C11_ResetAtZeroOrStepAgain ==
    [][ /\ (ThenMoved("reset") /\ ret.pre.at = 0) => SameValueAlone
        /\ (ThenMoved("step") /\ ret'.ti = ret.pre.at) => SameValueAlone
      ]_vars

\* C11 witness: reset() right after identifiers 0 and 1 (slots 3 and 1) were
\* sampled at timestep index 0, 4 values having been drawn
C11_Witness ==
    /\ ret.op = "reset" /\ ret.outcome = "ok"
    /\ ret.pre.at = 0 /\ ret.pre.sampled /\ ret.pre.state.pos = 4
    /\ ret.pre.slots = <<3, 1>>
    /\ st[ret.s].state.pos = 0 /\ st[ret.s].ready

----------------------------------------------------------------------------
(* Claims about one request per timestep (Spec) *)

\* C12: a sampling call on a slot-indexed stream raises NotResetException
\* only if a non-empty sampling call on that stream has succeeded since the
\* stream was last stepped, reset or initialized, so that in the simulation
\* loop, which steps the registry at the start of each timestep and samples
\* each stream at most once before the next step, no call raises it; and a
\* non-empty sampling call succeeds only if none has succeeded since the
\* last step or reset, so that at most one succeeds between two of them.
C12_OncePerAdvance ==
    (ret.op = "sample" /\ ret.pre.kind = "multi") =>
        /\ ret.outcome = "NotResetException" => ret.pre.sampled
        /\ (ret.outcome = "ok" /\ ret.basis # None) =>
               (~ret.pre.sampled /\ st[ret.s].sampled /\ ~st[ret.s].ready)

\* C12 witness: at timestep index 1, reached by a step of the registry that
\* holds both streams, stream 2 is sampled after stream 1 was
C12_Witness ==
    /\ IsSample(UIDS) /\ ret.s = 2 /\ ret.pre.at = 1 /\ ~ret.pre.sampled
    /\ st[1].sampled /\ st[1].at = 1
    /\ Registered(1, 1) /\ Registered(1, 2)

----------------------------------------------------------------------------
(* Claims about the registry's step and reset (Spec) *)

Reverse(seq) == [i \in 1..Len(seq) |-> seq[Len(seq) + 1 - i]]

\* C13: registry propagation.  Streams.step(ti) and Streams.reset() succeed
\* and have on every registered stream the effect of that stream's own
\* step(ti) or reset(): the generator of a slot-indexed stream is at its
\* recorded initial state, jumped ti times by a step, and the stream is
\* ready; no registered stream is skipped, streams that are not registered
\* are left alone, and visiting the streams in the reverse order gives the
\* same result.
C13_RegistryPropagation ==
    [][\A r \in Regs :
        (ret'.op \in {"streams_step", "streams_reset"} /\ ret'.s = r) =>
          /\ ret'.outcome = "ok"
          /\ (ret'.op = "streams_reset") = (ret'.ti = None)
          /\ \A s \in StreamIds :
                IF Registered(r, s)
                THEN /\ st'[s] = Moved(st[s], ret'.ti)
                     /\ st[s].kind = "multi" =>
                          /\ st'[s].ready
                          /\ st'[s].state =
                                IF ret'.ti = None THEN st[s].init_state
                                ELSE jumped(st[s].init_state, ret'.ti)
                ELSE st'[s] = st[s]
          /\ st' = LoopMoved(Reverse(reg[r].streams), Len(reg[r].streams),
                             ret'.ti).f
      ]_vars

\* C13 witness: a step of the registry to timestep index 1 has left both of
\* its streams ready at the state of timestep 1
C13_Witness ==
    /\ ret.op = "streams_step" /\ ret.outcome = "ok" /\ ret.ti = 1
    /\ reg[1].streams = <<2, 1>>
    /\ \A s \in {1, 2} : st[s].ready /\ st[s].at = 1 /\ st[s].state.pos = Jump

----------------------------------------------------------------------------
(* Claims about streams side by side in one registry (SpecShared) *)

\* The generator a stream draws from: its own bit generator, or
\* numpy.random for a centralized stream
GeneratorOf(b) == IF st[b].kind = "central" THEN np_random ELSE st[b].state

\* The values stream b returns for a request in the present state (the
\* exception, if it raises)
NextValues(b, arg) ==
    IF st[b].kind = "central"
    THEN Returned("random", 0, DrawVals(np_random, PreDrawCentralized(arg).size))
    ELSE IF PreDraw(st[b], arg).exc # "ok" THEN <<PreDraw(st[b], arg).exc>>
    ELSE WouldReturn(st[b], "random", 0, arg)

\* The step is a sampling call on stream a, while a and another stream b
\* are registered in registry 1
SampledBeside(a, b) ==
    /\ a # b /\ Registered(1, a) /\ Registered(1, b)
    /\ ret'.op = "sample" /\ ret'.s = a

\* A sampling call leaves stream b as it was: its generator, its ready
\* flag, and the values it returns for any request
Untouched(b) ==
    /\ GeneratorOf(b)' = GeneratorOf(b)
    /\ st'[b].ready = st[b].ready
    /\ \A arg \in RunArgs : NextValues(b, arg)' = NextValues(b, arg)

\* C14, as stated: for any two distinct streams A and B of one registry,
\* sampling A leaves B's generator state and ready flag unchanged, and with
\* them the values B returns.
C14_NoInterleavingAnyStreams ==
    [][\A a, b \in StreamIds : SampledBeside(a, b) => Untouched(b)]_vars

\* C14, amended: this holds for every slot-indexed stream B, whatever the
\* class of A; centralized streams all draw from numpy.random, so sampling
\* one centralized stream changes what another returns next.
C14_NoInterleavingSlotIndexed ==
    [][\A a, b \in StreamIds :
          (SampledBeside(a, b) /\ st[b].kind = "multi") =>
              (Untouched(b) /\ st'[b] = st[b])
      ]_vars

\* C14 witness: stream 1 is sampled at timestep index 1 while stream 2,
\* slot-indexed and in the same registry, is still ready at that timestep
C14_Witness ==
    /\ IsSample(UIDS) /\ ret.s = 1 /\ ret.pre.at = 1
    /\ Registered(1, 1) /\ Registered(1, 2)
    /\ st[2].kind = "multi" /\ st[2].ready /\ st[2].at = 1
    /\ st[2].state.pos = Jump

----------------------------------------------------------------------------
(* Claims about registration (SpecRegistry) *)

\* The step is a call that tries to register the stream ret'.s, which was
\* ret'.pre, in registry r: Streams.add directly, or through initialize()
Registers(r) == ret'.op \in {"add", "initialize"} /\ ret'.r = r

\* The call raised, and neither the registry nor the stream has changed
Rejected(exc) == ret'.outcome = exc /\ reg' = reg /\ st' = st

UniqueNames(r) ==
    \A i, j \in 1..Len(reg[r].streams) :
        i # j => st[reg[r].streams[i]].name # st[reg[r].streams[j]].name

OffsetsOf(r) == {st[reg[r].streams[i]].seed_offset : i \in 1..Len(reg[r].streams)}

\* C15: registering a stream whose name is present in the registry raises
\* RepeatNameException, whatever its seed offset, and no two registered
\* streams ever share a name.
C15_DuplicateNameRejected ==
    [][\A r \in Regs :
          /\ (Registers(r) /\ ret'.pre.name \in RegisteredNames(reg[r]))
                => Rejected("RepeatNameException")
          /\ UniqueNames(r)'
      ]_vars

\* C15 witness: a stream is refused for its name while its seed offset is
\* that of no registered stream
C15_Witness ==
    /\ ret.op = "initialize" /\ ret.outcome = "RepeatNameException"
    /\ ret.r = 1 /\ ret.check_repeats
    /\ ret.pre.seed_offset \notin OffsetsOf(1)
    /\ ret.pre.seed_offset \notin reg[1].used_seed_offsets
    /\ ~st[ret.s].initialized

\* C16: registering with the repeat check a stream whose seed offset is
\* already claimed in the registry (is in used_seed_offsets) is refused: with
\* SeedRepeatException when its name is new, and for its name when that is
\* a repeat too, the name being looked at first.
C16_SeedRepeatRejected ==
    [][\A r \in Regs :
          ( /\ Registers(r) /\ ret'.check_repeats
            /\ ret'.pre.seed_offset \in reg[r].used_seed_offsets )
          => IF ret'.pre.name \in RegisteredNames(reg[r])
             THEN Rejected("RepeatNameException")
             ELSE Rejected("SeedRepeatException")
      ]_vars

\* C16 witness: a stream with a new name is refused for its seed offset
C16_Witness ==
    /\ ret.op = "initialize" /\ ret.outcome = "SeedRepeatException"
    /\ ret.r = 1 /\ ret.pre.name \notin RegisteredNames(reg[1])
    /\ ret.pre.seed_offset = GivenOffset
    /\ ~st[ret.s].initialized

\* C18: registering a stream in a registry that is not initialized raises
\* NotInitializedException, whatever the stream, and a registry that is not
\* initialized holds no stream.
C18_RegistryNotInitialized ==
    [][\A r \in Regs :
          /\ (Registers(r) /\ ~reg[r].initialized)
                => Rejected("NotInitializedException")
          /\ ~reg'[r].initialized =>
                (reg'[r].streams = <<>> /\ reg'[r].used_seed_offsets = {})
      ]_vars

\* C18 witness: a slot-indexed stream with a given offset is refused by the
\* registry before Streams.initialize
C18_Witness ==
    /\ ret.op = "initialize" /\ ret.outcome = "NotInitializedException"
    /\ ret.r = 1 /\ ~reg[1].initialized
    /\ ret.pre.kind = "multi" /\ ret.pre.seed_offset = GivenOffset
    /\ ~st[ret.s].initialized /\ st[ret.s].seed = None

\* C19: a successful registration returns base_seed + seed_offset and
\* records the stream, last, under its name; a slot-indexed stream that
\* registers through its initialize() takes that value as its seed and
\* seeds its generator with it.
C19_ResolvedSeed ==
    [][\A r \in Regs :
          (Registers(r) /\ ret'.outcome = "ok") =>
            /\ ret'.value = reg[r].base_seed + ret'.pre.seed_offset
            /\ reg'[r].streams = Append(reg[r].streams, ret'.s)
            /\ ret'.pre.name \notin RegisteredNames(reg[r])
            /\ ret'.pre.name \in {st'[reg'[r].streams[i]].name :
                                    i \in 1..Len(reg'[r].streams)}
            /\ (ret'.op = "initialize" /\ ret'.pre.kind = "multi") =>
                  /\ st'[ret'.s].seed = reg[r].base_seed + st[ret'.s].seed_offset
                  /\ st'[ret'.s].state = PCG64(st'[ret'.s].seed)
                  /\ st'[ret'.s].initialized
      ]_vars

\* C19 witness: the second stream of the registry, with a given offset, has
\* registered through initialize() and has base_seed + offset as its seed
C19_Witness ==
    /\ ret.op = "initialize" /\ ret.outcome = "ok" /\ ret.r = 1
    /\ Len(reg[1].streams) = 2 /\ reg[1].streams[2] = ret.s
    /\ ret.pre.seed_offset = GivenOffset
    /\ ret.value = 42 + GivenOffset /\ st[ret.s].seed = 42 + GivenOffset

----------------------------------------------------------------------------
(* Claims about Streams.initialize (SpecRuns) *)

\* C20: Streams.initialize(base_seed) fixes the base seed and fails when it
\* is called again: once a registry is initialized, a call of its
\* initialize raises, its base seed never changes, and the seed of every
\* slot-indexed stream registered in it stays its base seed plus the
\* stream's seed offset.
C20_InitializeOnce ==
    [][\A r \in Regs :
          reg[r].initialized =>
            /\ (ret'.op = "streams_initialize" /\ ret'.s = r) => ret'.outcome # "ok"
            /\ reg'[r].base_seed = reg[r].base_seed
            /\ \A s \in StreamIds :
                  (Registered(r, s) /\ st[s].kind = "multi" /\ st[s].initialized)
                  => st'[s].seed = reg'[r].base_seed + st'[s].seed_offset
      ]_vars

----------------------------------------------------------------------------
(* Claims about what the gate refuses (SpecSlots, SpecGate) *)

\* A request for at least one value: a positive count, a non-empty
\* identifier array or a non-empty mask
NonEmpty(arg) ==
    \/ arg.kind = "int" /\ arg.n > 0
    \/ arg.kind \in {"uids", "mask"} /\ Len(arg.a) > 0

\* C21: every non-empty sampling call, by count, by identifiers or by mask,
\* on a slot-indexed stream that has not been initialized raises
\* NotInitializedException, and no other error.
C21_NotInitializedRaised ==
    ( /\ ret.op = "sample" /\ ret.pre.kind = "multi"
      /\ ~ret.pre.initialized /\ NonEmpty(ret.arg) )
    => ret.outcome = "NotInitializedException"


\* The call left every stream and the shared numpy generator as they were
NothingDrawn ==
    /\ ret.vals = <<>>
    /\ ret.size = 0
    /\ st[ret.s] = ret.pre
    /\ np_random.pos = ret.np0

\* C22: a negative integer count is rejected with an error by the
\* slot-indexed and by the centralized gate, whether or not the stream is
\* initialized or ready, and nothing is drawn.
C22_NegativeCountRejected ==
    (ret.op = "sample" /\ ret.arg.kind = "int" /\ ret.arg.n < 0)
    => (ret.outcome = "Exception" /\ NothingDrawn)

\* C22 witness: a negative count refused on a centralized stream that was
\* never initialized, after another call had drawn from numpy
C22_Witness ==
    /\ ret.op = "sample" /\ ret.arg = IntArg(-1)
    /\ ret.pre.kind = "central" /\ ~ret.pre.initialized
    /\ ret.outcome = "Exception"
    /\ np_random.pos > 0

\* C23: a sampling call with more than one positional argument, with a
\* positional argument beside size given by name, or with no size at all is
\* rejected with an error and draws nothing.
C23_OneSizeArgument ==
    ( /\ ret.op = "sample"
      /\ \/ ret.arg.kind \in {"many", "missing"}
         \/ ret.arg.extra > 0 )
    => (ret.outcome # "ok" /\ NothingDrawn)


----------------------------------------------------------------------------
(* SpecFilter: one slot-indexed stream filtered by bernoulli_filter *)

FilterProbs == {2, ValRange \div 2, 6}

NextFilter ==
    \/ StreamsInitialize(1, 42)
    \/ \E r \in {1, NoReg}, slots \in SlotInputs : MultiInitialize(1, r, slots)
    \/ StreamReset(1)
    \/ \E ti \in 0..MaxTi : StreamStep(1, ti)
    \/ \E prob \in FilterProbs, a \in UidArrays : MultiBernoulliFilter(1, prob, a)

SpecFilter == InitSlots /\ [][NextFilter]_vars

\* The identifiers of a whose draw, the value the generator delivers at the
\* identifier's slot counted from the state S, is below prob
RECURSIVE BelowProb(_, _, _)
BelowProb(S, prob, a) ==
    IF Len(a) = 0 THEN <<>>
    ELSE LET u == a[Len(a)]
             v == Output(S.state.seed, (S.state.pos + S.slots[u + 1]) % Period)
             rest == BelowProb(S, prob, SubSeq(a, 1, Len(a) - 1))
         IN IF v < prob THEN Append(rest, u) ELSE rest

\* C24: bernoulli_filter(identifiers, probability) on a slot-indexed stream
\* that is initialized and ready returns the identifiers whose slot-indexed
\* draw is below the probability, in the order given, having drawn
\* max(slot) + 1 values; it leaves the stream consumed, so that a second
\* call raises NotResetException; with an empty identifier array it returns
\* an empty result and leaves the stream as it was.
C24_BernoulliFilter ==
    ret.op = "bernoulli_filter" =>
        LET S == ret.pre
            a == ret.arg.a
        IN
        /\ Len(a) = 0 => (ret.outcome = "ok" /\ ret.vals = <<>> /\ st[ret.s] = S)
        /\ (Len(a) > 0 /\ S.initialized /\ S.ready /\ InTable(S.slots, a))
           => /\ ret.outcome = "ok"
              /\ ret.size = SeqMax(SlotsAt(S.slots, a)) + 1
              /\ ret.vals = BelowProb(S, ret.prob, a)
              /\ st[ret.s].state = DrawState(S.state, ret.size)
              /\ ~st[ret.s].ready
              /\ \A a2 \in UidArrays :
                     (Len(a2) > 0 /\ InTable(S.slots, a2))
                     => PreDraw(st[ret.s], UidArg(a2)).exc = "NotResetException"
        /\ (Len(a) > 0 /\ S.initialized /\ ~S.ready /\ InTable(S.slots, a))
           => (ret.outcome = "NotResetException" /\ st[ret.s] = S)

\* C24 witness: with uid 0 in slot 3 and uid 1 in slot 1, filtering <<0, 1>>
\* keeps one identifier and drops the other
C24_Witness ==
    /\ ret.op = "bernoulli_filter" /\ ret.outcome = "ok"
    /\ ret.pre.slots = <<3, 1>>
    /\ ret.arg.a = <<0, 1>>
    /\ Len(ret.vals) = 1
    /\ ~st[ret.s].ready


----------------------------------------------------------------------------
(* Timestep independence (SpecSlots) *)

\* The positions of the generator's sequence that a draw of n values reads
\* from the given state
Positions(state, n) == {(state.pos + i) % Period : i \in 0..(n - 1)}

\* The sizes a request to the stream S, made ready, can resolve to
DrawSizes(S) ==
    {PreDraw(MultiReset(S), arg).size : arg \in SizeArgs}
    \cup {PreDraw(MultiReset(S), arg).size : arg \in MaskArgs}

\* C25: timestep independence.  The positions a sampling call consumes after
\* step(t1) are disjoint from the positions any call, of any size a request
\* can resolve to, consumes after step(t2) with t2 # t1.
C25_TimestepsDisjoint ==
    ( /\ ret.op = "sample" /\ ret.outcome = "ok" /\ ret.size > 0
      /\ ret.pre.kind = "multi" /\ ret.pre.at # None )
    => \A t2 \in 0..MaxTi, n \in DrawSizes(ret.pre) :
           t2 # ret.pre.at
           => Positions(ret.pre.state, ret.size)
              \cap Positions(MultiStep(ret.pre, t2).state, n) = {}

\* C25 witness: a draw of the largest size after step(MaxTi)
C25_Witness ==
    /\ ret.op = "sample" /\ ret.outcome = "ok"
    /\ ret.pre.at = MaxTi /\ MaxTi > 0
    /\ ret.size > 1
    /\ \A n \in DrawSizes(ret.pre) : n <= ret.size
    /\ st[ret.s].state.pos = (MaxTi * Jump + ret.size) % Period


----------------------------------------------------------------------------
(* The two modes side by side (SpecGate) *)

\* C26: in centralized mode a request by identifiers draws len(identifiers)
\* values and a request by mask draws count(mask = true) values from the
\* numpy generator, returned in call order with no slot lookup; the
\* slot-indexed mode draws max(slot) + 1 values and len(mask) values.
C26_CentralizedSizes ==
    (ret.op = "sample" /\ ret.outcome = "ok" /\ ret.arg.kind \in {"uids", "mask"}
     /\ Len(ret.arg.a) > 0)
    => IF ret.pre.kind = "central"
       THEN LET n == IF ret.arg.kind = "uids" THEN Len(ret.arg.a)
                     ELSE CountTrue(ret.arg.a)
                from == [seed |-> np_random.seed, pos |-> ret.np0]
            IN /\ ret.size = n
               /\ ret.vals = Returned(ret.dist, ret.prob, DrawVals(from, n))
               /\ np_random = DrawState(from, n)
               /\ st[ret.s] = ret.pre
       ELSE /\ ret.size = IF ret.arg.kind = "uids"
                          THEN SeqMax(SlotsAt(ret.pre.slots, ret.arg.a)) + 1
                          ELSE Len(ret.arg.a)
            /\ st[ret.s].state = DrawState(ret.pre.state, ret.size)
            /\ np_random.pos = ret.np0

\* C26 witness: the centralized stream draws one value for a mask of two
\* entries of which one is true
C26_Witness ==
    /\ ret.op = "sample" /\ ret.outcome = "ok" /\ ret.pre.kind = "central"
    /\ ret.arg.kind = "mask" /\ ret.arg.a = <<FALSE, TRUE>>
    /\ ret.size = 1 /\ Len(ret.vals) = 1
    /\ np_random.pos = ret.np0 + 1


----------------------------------------------------------------------------
(* The centralized stream in the registry (SpecRegistry) *)

C28_CentralizedContract ==
    [][( /\ ret'.op = "sample" /\ ret'.pre.kind = "central"
         /\ NonEmpty(ret'.arg) )
       => /\ ~ret'.pre.initialized
             => ret'.outcome = "NotInitializedException"
          /\ ( /\ ret'.pre.initialized
               /\ ret.op = "sample" /\ ret.s = ret'.s
               /\ ret.outcome = "ok" /\ NonEmpty(ret.arg) )
             => ret'.outcome = "NotResetException"
      ]_vars


----------------------------------------------------------------------------
(* SpecUnassigned: a slot table in which one identifier has no slot *)


\* uid 0 in slot 1, uid 1 without a slot, uid 2 in slot 0
UnassignedSlots == ArraySlots(<<1, INT_NAN, 0>>)

NextUnassigned ==
    \/ StreamsInitialize(1, 42)
    \/ \E r \in {1, NoReg} : MultiInitialize(1, r, UnassignedSlots)
    \/ StreamReset(1)
    \/ \E ti \in 0..MaxTi : StreamStep(1, ti)
    \/ \E dist \in Dists, prob \in Probs, a \in UidArrays :
           MultiSample(1, dist, prob, UidArg(a))

SpecUnassigned == InitSlots /\ [][NextUnassigned]_vars

\* Some identifier of the request is in the table and has no slot
HasUnassigned(S, a) ==
    /\ S.slots # NoSlots
    /\ InTable(S.slots, a)
    /\ \E j \in 1..Len(a) : S.slots[a[j] + 1] = INT_NAN

\* C29: a sampling call by identifiers of which at least one has an
\* unassigned slot (INT_NAN) is rejected with an error and returns no
\* values, also when the other identifiers have assigned slots.
C29_UnassignedSlotRejected ==
    ( /\ ret.op = "sample" /\ ret.arg.kind = "uids"
      /\ HasUnassigned(ret.pre, ret.arg.a) )
    => (ret.outcome # "ok" /\ ret.vals = <<>>)


----------------------------------------------------------------------------
(* SpecParams: rvs called with a per-agent parameter array *)

\* Lengths of the parameter array
ParLens == 1..(MaxPop + 1)

NextParams ==
    \/ StreamsInitialize(1, 42)
    \/ \E slots \in SlotInputs : MultiInitialize(1, 1, slots)
    \/ \E multirng \in BOOLEAN, arg \in SizeArgs, par \in ParLens \cup {None} :
           Rvs(1, multirng, arg, par)
    \/ \E multirng \in BOOLEAN, arg \in MaskArgs, par \in ParLens \cup {None} :
           Rvs(1, multirng, arg, par)

SpecParams == InitSlots /\ [][NextParams]_vars

\* The number of agents a request asks values for
Requested(arg) ==
    IF arg.kind = "int" THEN arg.n
    ELSE IF arg.kind = "mask" THEN CountTrue(arg.a)
    ELSE Len(arg.a)

\* C30: a per-agent parameter array is accepted only if its length is the
\* number of requested agents (identifier count, or number of true mask
\* entries) or the number of values drawn; with any other length the call
\* is rejected with the parameter-length error, for requests by
\* identifiers, by mask and by integer count alike.
C30_ParameterLength ==
    ( /\ ret.op = "rvs" /\ ret.size > 0 /\ ret.par # None
      /\ ret.par \notin {Requested(ret.arg), ret.size} )
    => ret.outcome = ParameterLengthError


----------------------------------------------------------------------------
(* SpecIsolated: two runs of one mode, each with its own registry; stream 1 *)
(* belongs to run 1 and stream 2 to run 2                                  *)

InitIsolated ==
    \E kind \in {"multi", "central"} :
        InitObjects(<<Construct(kind, "infect", None),
                      Construct(kind, "infect", None),
                      Construct("multi", "death", None)>>)

NextIsolated ==
    \/ \E r \in Regs : \E b \in RunSeeds(r) : StreamsInitialize(r, b)
    \/ \E s \in Regs : MultiInitialize(s, s, IntSlots(MaxPop))
    \/ \E s \in Regs : CentralInitialize(s, s)
    \/ \E r \in Regs : StreamsReset(r)
    \/ \E r \in Regs, ti \in 0..MaxTi : StreamsStep(r, ti)
    \/ \E s \in Regs, prob \in Probs, arg \in RunArgs :
           MultiSample(s, "random", prob, arg)
    \/ \E s \in Regs, prob \in Probs, arg \in RunArgs :
           CentralSample(s, "random", prob, arg)

SpecIsolated == InitIsolated /\ [][NextIsolated]_vars

\* The step is an operation on registry r or on its stream (in SpecIsolated
\* stream r is the stream of registry r)
ActsOnRun(r) == ret'.op # "construct" /\ ret'.s = r

\* C31: two registries are isolated.  An operation on one registry or on
\* its stream (initialize, register, step, reset, sampling) leaves the
\* other registry's base seed, stream set and used offsets unchanged, and
\* with them the generator, the ready flag and the values returned next by
\* the other registry's stream.
C31_RegistriesIsolated ==
    [][\A r, o \in Regs :
          (r # o /\ ActsOnRun(r))
          => /\ reg'[o] = reg[o]
             /\ st'[o] = st[o]
             /\ Untouched(o)
      ]_vars


\* C32: parameter expansion keeps parameters aligned with agents.  When an
\* identifier request supplies a parameter array with one entry per
\* identifier, the value returned for the j-th identifier is drawn with the
\* j-th supplied parameter, whatever the slot assignment, and never with the
\* placeholder.
C32_ParametersAligned ==
    ( /\ ret.op = "rvs" /\ ret.outcome = "ok" /\ ret.multirng
      /\ ret.arg.kind = "uids" /\ ret.par = Len(ret.arg.a) )
    => /\ Len(ret.used) = Len(ret.arg.a)
       /\ \A j \in 1..Len(ret.arg.a) :
              /\ ret.used[j] = ParamArray(ret.par)[j]
              /\ ret.used[j] # FillValue


----------------------------------------------------------------------------
(* SpecConstruct: slot-indexed streams constructed during the run *)

\* The offsets of a hashed name lie below 10**8
HashModulus == 100000000

StreamNames == {"infect", "death"}
OffsetArgs == {None, 0, GivenOffset}

\* s = MultiStream(name, seed_offset): a new object takes the place of an
\* object that no registry holds
MultiConstruct(s, name, seed_offset) ==
    /\ \A r \in Regs : ~Registered(r, s)
    /\ st' = [st EXCEPT ![s] = MultiStream__init__(name, seed_offset)]
    /\ ret' = [Ret("MultiStream", s, "ok") EXCEPT !.value = seed_offset]
    /\ UNCHANGED <<reg, np_random, options, people>>

NextConstruct ==
    \/ \E s \in {1, 2}, name \in StreamNames, seed_offset \in OffsetArgs :
           MultiConstruct(s, name, seed_offset)
    \/ \E r \in Regs : \E b \in RunSeeds(r) : StreamsInitialize(r, b)
    \/ \E s \in {1, 2}, r \in Regs : MultiInitialize(s, r, IntSlots(MaxPop))

SpecConstruct == InitSlots /\ [][NextConstruct]_vars

\* C33: the seed offset of a slot-indexed stream constructed without an
\* override is the hash of its name, which lies in 0 .. 10^8 - 1 and is the
\* offset of the stream constructed before it under the same name without
\* an override, in whatever state the registries are; with an override the
\* offset is the override, whatever the name.
C33_OffsetFromName ==
    [][ret'.op = "MultiStream" =>
          LET S == st'[ret'.s] IN
          IF ret'.value = None
          THEN /\ S.seed_offset = NameHash(S.name)
               /\ S.seed_offset \in 0..(HashModulus - 1)
               /\ ( /\ ret.op = "MultiStream" /\ ret.value = None
                    /\ st[ret.s].name = S.name )
                  => S.seed_offset = st[ret.s].seed_offset
          ELSE S.seed_offset = ret'.value
      ]_vars

\* C33 witness: two streams of one name, one constructed without and one
\* with an override, while a registry holds the first
C33_Witness ==
    /\ ret.op = "MultiStream" /\ ret.s = 2 /\ ret.value = GivenOffset
    /\ st[2].name = "infect" /\ st[2].seed_offset = GivenOffset
    /\ st[1].name = "infect" /\ st[1].seed_offset = NameHash("infect")
    /\ st[1].initialized /\ Registered(2, 1)


----------------------------------------------------------------------------
(* SpecMode: streams made by the Stream factory while the mode flag is     *)
(* switched                                                                *)

\* Stream(name): the factory reads ss.options.multistream at each call
Stream(name, seed_offset) ==
    IF options.multistream THEN MultiStream__init__(name, seed_offset)
    ELSE CentralizedStream__init__(name, seed_offset)

\* s = Stream(name): a new object takes the place of an object that no
\* registry holds
StreamFactory(s, name) ==
    /\ \A r \in Regs : ~Registered(r, s)
    /\ st' = [st EXCEPT ![s] = Stream(name, None)]
    /\ ret' = Ret("Stream", s, "ok")
    /\ UNCHANGED <<reg, np_random, options, people>>

\* ss.options(multistream=flag)
SetOptions(flag) ==
    /\ options' = [options EXCEPT !.multistream = flag]
    /\ ret' = [Ret("options", 0, "ok") EXCEPT !.multirng = flag]
    /\ UNCHANGED <<reg, st, np_random, people>>

ModeNames == {"infect", "death", "network"}

InitMode ==
    InitObjects(<<Construct("multi", "infect", None),
                  Construct("multi", "death", None),
                  Construct("multi", "network", None)>>)

NextMode ==
    \/ \E flag \in BOOLEAN : SetOptions(flag)
    \/ \E s \in StreamIds, name \in ModeNames : StreamFactory(s, name)
    \/ StreamsInitialize(1, 42)
    \/ \E s \in StreamIds : MultiInitialize(s, 1, IntSlots(MaxPop))
    \/ \E s \in StreamIds : CentralInitialize(s, 1)

SpecMode == InitMode /\ [][NextMode]_vars

\* C34: the stream mode is a run-wide choice.  All streams registered in one
\* registry are of the same mode, slot-indexed or centralized, for any
\* sequence of constructions through the Stream factory and changes of the
\* mode flag.
C34_OneModePerRegistry ==
    \A r \in Regs : \A i, j \in 1..Len(reg[r].streams) :
        st[reg[r].streams[i]].kind = st[reg[r].streams[j]].kind


----------------------------------------------------------------------------
(* Failed and repeated calls (SpecRegistry, SpecGate) *)

\* Every non-empty request to the stream S is refused
RefusesSampling(S) ==
    /\ \A arg \in SizeArgs : NonEmpty(arg) => PreDraw(S, arg).exc # "ok"
    /\ \A arg \in MaskArgs : NonEmpty(arg) => PreDraw(S, arg).exc # "ok"

\* C35: a rejected registration changes nothing.  When Streams.add raises
\* (registry not initialized, duplicate name, seed collision) the registry's
\* streams and used offsets are as before the call; the slot-indexed stream
\* whose initialize() made the call stays not initialized, with its seed
\* unset, and refuses every non-empty sampling call.
C35_RejectedRegistration ==
    [][\A r \in Regs :
          ( /\ Registers(r)
            /\ ret'.outcome \in {"NotInitializedException",
                                 "RepeatNameException", "SeedRepeatException"} )
          => /\ reg'[r].streams = reg[r].streams
             /\ reg'[r].used_seed_offsets = reg[r].used_seed_offsets
             /\ reg' = reg
             /\ (ret'.op = "initialize" /\ ret'.pre.kind = "multi")
                => /\ st'[ret'.s] = ret'.pre
                   /\ ~st'[ret'.s].initialized
                   /\ st'[ret'.s].seed = None
                   /\ RefusesSampling(st'[ret'.s])
      ]_vars

\* C35 witness: initialize() of a slot-indexed stream was refused for a
\* seed collision in a registry that holds a stream
C35_Witness ==
    /\ ret.op = "initialize" /\ ret.outcome = "SeedRepeatException"
    /\ ret.pre.kind = "multi" /\ ret.r = 1
    /\ Len(reg[1].streams) > 0
    /\ ~st[ret.s].initialized /\ st[ret.s].seed = None
    /\ ~Registered(1, ret.s)


----------------------------------------------------------------------------
(* SpecDraw: one slot-indexed stream whose sampling function may fail      *)
(* after the gate                                                          *)

\* prob given, or left out of the call
DrawProbs == Probs \cup {None}

NextDraw ==
    \/ StreamsInitialize(1, 42)
    \/ \E slots \in SlotInputs : MultiInitialize(1, 1, slots)
    \/ StreamReset(1)
    \/ \E ti \in 0..MaxTi : StreamStep(1, ti)
    \/ \E dist \in Dists, prob \in DrawProbs, arg \in GateArgs :
           MultiSample(1, dist, prob, arg)
    \/ \E dist \in Dists, prob \in DrawProbs, arg \in GateMasks :
           MultiSample(1, dist, prob, arg)

SpecDraw == InitSlots /\ [][NextDraw]_vars

\* The last call passed the gate with a non-empty request and then failed
\* in the sampling function
FailedAfterGate ==
    /\ ret.op = "sample" /\ ret.pre.kind = "multi"
    /\ PreDraw(ret.pre, ret.arg).exc = "ok" /\ ~PreDraw(ret.pre, ret.arg).empty
    /\ ret.outcome # "ok"

\* C36: ready is set to false before the draw and the selection run.  A
\* non-empty sampling call that passes the gate and then fails leaves the
\* stream consumed: it returns nothing, ready is false, and every non-empty
\* sampling call raises NotResetException as long as there is no reset or
\* step.
C36_ConsumedBeforeDraw ==
    FailedAfterGate
    => /\ ret.vals = <<>>
       /\ ret.pre.ready /\ ~st[ret.s].ready
       /\ st[ret.s] = [ret.pre EXCEPT !.ready = FALSE]
       /\ \A arg \in GateArgs :
              (NonEmpty(arg) /\ InTable(st[ret.s].slots, arg.a))
              => PreDraw(st[ret.s], arg).exc = "NotResetException"
       /\ \A arg \in GateMasks :
              NonEmpty(arg) => PreDraw(st[ret.s], arg).exc = "NotResetException"

\* C36 witness: bernoulli called with identifiers and without prob, after
\* a step
C36_Witness ==
    /\ FailedAfterGate
    /\ ret.outcome = "TypeError" /\ ret.arg.kind = "uids"
    /\ ret.pre.at = MaxTi
    /\ ~st[ret.s].ready


\* The gate refused the last call: it raised for the arguments, or for a
\* stream that is not initialized or not ready
RejectedByGate ==
    /\ ret.op = "sample" /\ ret.pre.kind = "multi"
    /\ \/ ret.arg.kind \in {"many", "missing"}
       \/ ret.arg.kind = "int" /\ ret.arg.n < 0
       \/ NonEmpty(ret.arg) /\ ~ret.pre.initialized
       \/ NonEmpty(ret.arg) /\ ret.pre.initialized /\ ~ret.pre.ready
          /\ (ret.arg.kind = "uids" => InTable(ret.pre.slots, ret.arg.a))

\* C37: a sampling call on a slot-indexed stream that the gate rejects
\* (more than one positional argument, no size, negative count, stream not
\* initialized, stream not ready) raises, returns nothing and leaves the
\* stream's ready flag, initialized flag and generator state as they were.
C37_RejectedLeavesStream ==
    RejectedByGate
    => /\ ret.outcome # "ok" /\ ret.vals = <<>>
       /\ st[ret.s].ready = ret.pre.ready
       /\ st[ret.s].initialized = ret.pre.initialized
       /\ st[ret.s].state = ret.pre.state
       /\ st[ret.s] = ret.pre

\* C37 witness: a request by mask refused on a consumed stream whose
\* generator has moved from its initial state
C37_Witness ==
    /\ RejectedByGate
    /\ ret.outcome = "NotResetException" /\ ret.arg.kind = "mask"
    /\ ~st[ret.s].ready /\ st[ret.s].initialized
    /\ st[ret.s].state # st[ret.s].init_state


----------------------------------------------------------------------------
(* SpecAgain: a slot-indexed and a centralized stream initialized more     *)
(* than once, with either registry or none, and with either slot table     *)

InitAgain ==
    InitObjects(<<Construct("multi", "infect", None),
                  Construct("multi", "death", None),
                  Construct("central", "network", None)>>)

NextAgain ==
    \/ \E r \in Regs : StreamsInitialize(r, 42)
    \/ \E r \in Regs \cup {NoReg}, slots \in SlotInputs : MultiInitialize(1, r, slots)
    \/ \E r \in Regs \cup {NoReg} : CentralInitialize(3, r)
    \/ \E ti \in 0..MaxTi : StreamStep(1, ti)
    \/ \E prob \in Probs, arg \in RunArgs : MultiSample(1, "random", prob, arg)
    \/ \E prob \in Probs, arg \in RunArgs : CentralSample(3, "random", prob, arg)

SpecAgain == InitAgain /\ [][NextAgain]_vars

\* C38: initialize() is idempotent.  Called on a stream that is initialized,
\* with the same or another registry or slot table, it returns without
\* registering the stream again (no exception, registries unchanged) and
\* without changing the stream: seed, slots, generator state and ready flag
\* stay, and a consumed stream stays consumed.
C38_InitializeIdempotent ==
    [][(ret'.op = "initialize" /\ st[ret'.s].initialized)
       => /\ ret'.outcome = "ok"
          /\ reg' = reg
          /\ st' = st
          /\ np_random' = np_random
      ]_vars

\* C38 witness: initialize() has returned on a slot-indexed stream that is
\* consumed, having drawn at a timestep after the first
C38_Witness ==
    /\ ret.op = "initialize" /\ ret.outcome = "ok"
    /\ st[ret.s].kind = "multi" /\ st[ret.s].initialized
    /\ ~st[ret.s].ready /\ st[ret.s].sampled /\ st[ret.s].at = MaxTi
    /\ Registered(1, ret.s) /\ reg[2].initialized /\ ~Registered(2, ret.s)


\* The seed offsets of the streams registered in r with the repeat check
CheckedOffsets(r) == {st[s].seed_offset : s \in reg[r].checked}

\* C39: in every reachable state of a registry used_seed_offsets is the set
\* of seed offsets of the streams registered with the repeat check enabled.
\* A step changes it only by adding the offset of a stream that registers
\* with the check: a stream registered with check_repeats = False claims
\* nothing, and no offset is ever removed.
C39_UsedOffsetsExact ==
    /\ [](\A r \in Regs : reg[r].used_seed_offsets = CheckedOffsets(r))
    /\ [][\A r \in Regs :
             reg'[r].used_seed_offsets =
                 IF Registers(r) /\ ret'.outcome = "ok" /\ ret'.check_repeats
                 THEN reg[r].used_seed_offsets \cup {ret'.pre.seed_offset}
                 ELSE reg[r].used_seed_offsets
         ]_vars

\* C39 witness: a registry holds a stream that did not claim its offset
\* beside two that did
C39_Witness ==
    /\ Len(reg[1].streams) = 3
    /\ Cardinality(reg[1].checked) = 2
    /\ Cardinality(reg[1].used_seed_offsets) = 2
    /\ \E i \in 1..3 : /\ reg[1].streams[i] \notin reg[1].checked
                       /\ st[reg[1].streams[i]].seed_offset
                              \notin reg[1].used_seed_offsets

-----------------------------------------------------------------------------
\* BasePeople (people.py): the uid array, the uid -> index map and the
\* registered States, under grow and remove.

\* The elements of an array, as a set
Elements(a) == {a[i] : i \in 1..Len(a)}

\* self._uid_map[uids]: the indices stored for the given uids
MapLookup(map, uids) == [i \in 1..Len(uids) |-> map[uids[i] + 1]]

\* view._trim(inds): keep the entries at the given indices, in that order
Trim(view, inds) == [i \in 1..Len(inds) |-> view[inds[i] + 1]]

\* self._uid_map[:] = INT_NAN; self._uid_map[keep_uids] = arange(len(keep_uids))
Remapped(map, keep_uids) ==
    [u \in 1..Len(map) |->
        IF \E i \in 1..Len(keep_uids) : keep_uids[i] = u - 1
        THEN (CHOOSE i \in 1..Len(keep_uids) : keep_uids[i] = u - 1) - 1
        ELSE INT_NAN]

\* Positions stay below INT_NAN, so that INT_NAN marks a removed uid
UidLimit == INT_NAN
PeopleSizes == 1..MaxPop
GrowSizes == 1..2
RemoveSets == {U \in SUBSET (0..(UidLimit - 1)) : Cardinality(U) \in 1..2}

PeopleRet(op, outcome, vals) ==
    [Ret(op, 0, outcome) EXCEPT !.vals = vals]

\* BasePeople.add_state(state): self._states[id(state)] = state.  The State
\* is sized to the population (People.initialize).
PeopleAddState ==
    /\ people.nstates < 1
    /\ people' = [people EXCEPT !.nstates = @ + 1,
                                !.state_len = Len(people.uid)]
    /\ ret' = PeopleRet("add_state", "ok", <<>>)
    /\ UNCHANGED <<reg, st, np_random, options>>

\* BasePeople.grow(n): new uids start at len(self._uid_map), new indices at
\* len(self.uid); every registered State grows by n; the new uids are returned.
PeopleGrow(n) ==
    LET start_uid == Len(people._uid_map)
        start_idx == Len(people.uid)
        new_uids == [i \in 1..n |-> start_uid + i - 1]
        new_inds == [i \in 1..n |-> start_idx + i - 1]
    IN  /\ start_uid + n <= UidLimit
        /\ people' = [people EXCEPT
                        !._uid_map = people._uid_map \o new_inds,
                        !.uid = people.uid \o new_uids,
                        !.state_len = IF people.nstates > 0 THEN @ + n ELSE @]
        /\ ret' = PeopleRet("grow", "ok", new_uids)
        /\ UNCHANGED <<reg, st, np_random, options>>

\* BasePeople.remove(uids_to_remove): trims self.uid to the kept indices, then
\* walks `for state in self._states` -- the keys of the dict, integers -- and
\* calls state._trim on each, which raises AttributeError as soon as one State
\* is registered, before self._uid_map is rewritten.  An index that is not in
\* the uid array makes the first _trim raise IndexError.
PeopleRemove(uids_to_remove) ==
    LET keep_uids == SelectSeq(people.uid, LAMBDA u : u \notin uids_to_remove)
        keep_inds == MapLookup(people._uid_map, keep_uids)
    IN  /\ IF \E i \in 1..Len(keep_inds) : keep_inds[i] >= Len(people.uid)
           THEN /\ people' = people
                /\ ret' = PeopleRet("remove", "IndexError", <<>>)
           ELSE IF people.nstates > 0
           THEN /\ people' = [people EXCEPT !.uid = Trim(people.uid, keep_inds)]
                /\ ret' = PeopleRet("remove", "AttributeError", <<>>)
           ELSE /\ people' = [people EXCEPT
                                !.uid = Trim(people.uid, keep_inds),
                                !._uid_map = Remapped(people._uid_map, keep_uids)]
                /\ ret' = PeopleRet("remove", "ok", <<>>)
        /\ UNCHANGED <<reg, st, np_random, options>>

InitPeople ==
    /\ reg = [r \in Regs |-> Streams__init__]
    /\ st = <<>>
    /\ np_random = PCG64(NumpySeed)
    /\ ret = Ret("construct", 0, "ok")
    /\ options = options__init__
    /\ \E n \in PeopleSizes : people = BasePeople__init__(n)

NextPeople ==
    \/ PeopleAddState
    \/ \E n \in GrowSizes : PeopleGrow(n)
    \/ \E U \in RemoveSets : PeopleRemove(U)

SpecPeople == InitPeople /\ [][NextPeople]_vars

\* Every live uid is mapped to its own position in the uid array
MapMatchesUid ==
    \A i \in 1..Len(people.uid) :
        /\ people.uid[i] < Len(people._uid_map)
        /\ people._uid_map[people.uid[i] + 1] = i - 1

\* C40: agent identifiers are stable and never reused: the uids of live agents
\* are pairwise distinct and each is mapped to its position in the uid array,
\* grow returns only uids never assigned before, and remove completes and
\* keeps exactly the live uids that were not listed.
C40_UidsStable ==
    /\ [](Distinct(people.uid) /\ MapMatchesUid)
    /\ [][/\ \A n \in GrowSizes : PeopleGrow(n) =>
                \A i \in 1..Len(ret'.vals) :
                    ret'.vals[i] >= Len(people._uid_map)
          /\ \A U \in RemoveSets : PeopleRemove(U) =>
                /\ ret'.outcome = "ok"
                /\ Elements(people'.uid) = Elements(people.uid) \ U]_vars

====
